---- MODULE Spec2Model ----
(***************************************************************************)
(* genai-telemetry: the export subsystem (batching network adapter,        *)
(* fan-out combinator) and the telemetry facade's scoped span operation.   *)
(*                                                                         *)
(* Spec       one batching network adapter (the SplunkHECExporter pattern, *)
(*            repeated verbatim by the Elasticsearch, OTLP, Datadog, Loki  *)
(*            and CloudWatch adapters) used by two caller threads and its  *)
(*            background flush thread.                                     *)
(* SpecLife   the same adapter called from one thread, its calls coming    *)
(*            one after the other.                                         *)
(* SpecThreads  the same, with two threads for start() to create.          *)
(* SpecFair   SpecLife under a scheduler that lets every thread run.       *)
(* SpecCloudWatch  the CloudWatch adapter: the same batching code over its *)
(*            own _send_batch and sequence token.                          *)
(* SpecElasticsearch  the Elasticsearch adapter's host selection.          *)
(* SpecBase   BaseExporter.export_batch.                                   *)
(* SpecSetup  setup_telemetry and _create_exporter.                        *)
(* SpecFile   FileExporter.export and the lines of its file.               *)
(* SpecDict   the records Span.to_dict and send_span build.                *)
(* SpecTrace  the per-thread trace id of GenAITelemetry.                   *)
(* SpecMulti  MultiExporter over a list of member exporters.               *)
(* SpecSpan   GenAITelemetry.start_span and the trace_* wrappers on two    *)
(*            threads, over an exporter that answers, fails or throws.     *)
(* SpecLocal  start_span on two threads together with each thread's trace  *)
(*            id.                                                          *)
(* SpecRecord  the caller's record across the export of a member adapter. *)
(* SpecProm   PrometheusExporter.export and its counters, on two threads.  *)
(* SpecFileLock  FileExporter.export step by step, on two threads.         *)
(* SpecResetup  setup_telemetry called several times, get_telemetry, and   *)
(*            the exporters of the handles built.                          *)
(***************************************************************************)
EXTENDS Integers, Sequences, FiniteSets, TLC

\* ------------------------------------------------------------------ bounds
\* Records exported over a run of the adapter.
MaxRecords == 3
\* Largest batch_size the constructor is given (1 = unbatched).
MaxBatchSize == 2
\* Longest list of members a MultiExporter is built over; also the handles
\* setup_telemetry builds over a run.
MaxMembers == 3
\* Spans created over a run of the facade.
MaxSpans == 2
\* Longest host list an ElasticsearchExporter is given.
MaxHosts == 3
\* Host selections made over a run.
MaxCalls == 4
\* Longest list of exporter configs setup_telemetry is given.
MaxConfigs == 2

\* ----------------------------------------------------------------- threads
Callers == {"t1", "t2"}
BgThreads == {"bg1", "bg2"}
Threads == Callers \cup BgThreads
NoThread == "none"

VARIABLES
    batch_size,     \* self.batch_size
    _batch,         \* self._batch: the pending queue
    _lock,          \* self._lock: the thread holding it, or NoThread
    _running,       \* self._running
    _flush_thread,  \* self._flush_thread: the last thread spawned, or NoThread
    pc,             \* each thread's position in the code
    op,             \* each thread's current top-level call
    batch,          \* flush's / _send_batch's local `batch`, per thread
    span_data,      \* export's argument, per thread (0: none)
    ret,            \* what the last call of a caller gave: a value or an exception
    sends,          \* every batch handed to _send_batch, with its outcome
    nextId,         \* identity of the next record exported
    hist            \* what has happened so far (for stating the claims)

adapterVars == <<batch_size, _batch, _lock, _running, _flush_thread, pc, op, batch,
                 span_data, ret, sends, nextId, hist>>

VARIABLES
    exporters,      \* MultiExporter.exporters: the members, in list order
    m_pc,           \* MultiExporter: "idle", or "loop" inside a call
    m_op,           \* the current (or last) call: export, start, stop, flush
    m_arg,          \* export's span_data
    m_i,            \* position of the `for exp in self.exporters` loop
    results,        \* export's local `results`
    callLog,        \* the member calls made by the current (or last) call
    m_ret           \* what the last call gave: a value or an exception

multiVars == <<exporters, m_pc, m_op, m_arg, m_i, results, callLog, m_ret>>

VARIABLES
    span_stack,     \* GenAITelemetry._span_stack: per thread, the open spans
    spans,          \* every Span created, by creation order
    s_pc,           \* per thread: position in start_span / a trace_* wrapper
    s_span,         \* per thread: start_span's local `span` while it exits
    s_exc,          \* per thread: the exception in flight, or NoError
    exported,       \* every record passed to exporter.export, in call order
    s_n,            \* start_span blocks and wrapped calls begun so far
    lastObs         \* per thread: what the caller of the last block or call got

spanVars == <<span_stack, spans, s_pc, s_span, s_exc, exported, s_n, lastObs>>

VARIABLES
    eb_pc,          \* BaseExporter.export_batch: "idle", or "iter" inside all(...)
    eb_spans,       \* export_batch's argument `spans`
    eb_i,           \* position of the generator `for span in spans`
    eb_log,         \* the export calls made by the current (or last) call
    eb_ret          \* what the last call gave: a value or an exception

baseVars == <<eb_pc, eb_spans, eb_i, eb_log, eb_ret>>

VARIABLES
    boto3,            \* CloudWatch: whether `import boto3` succeeds
    _sequence_token,  \* self._sequence_token: 0 is None, k > 0 the k-th token
    kwargs,           \* per thread: _send_batch's kwargs["sequenceToken"], 0 if not set
    response,         \* per thread: the nextSequenceToken of put_log_events' response
    stream,           \* the log stream: the token its last accepted put returned
    puts              \* every put_log_events call made: supplied and expected token

cwVars == <<boto3, _sequence_token, kwargs, response, stream, puts>>

VARIABLES
    hosts,          \* ElasticsearchExporter.hosts
    _host_index,    \* self._host_index
    es_calls,       \* what the _get_host calls made so far returned, in call order
    es_given        \* the `hosts` argument the constructor was given

esVars == <<hosts, _host_index, es_calls, es_given>>

VARIABLES
    _telemetry,     \* the module's _telemetry: the exporter instances its handle
                    \* exports to ({} while it is None)
    su_pc,          \* setup_telemetry: "idle", "create" in the loop, "done"
    su_arg,         \* its arguments: exporter (a name or a list), console, file_path
    su_i,           \* position of `for exp_config in exporter`
    exporters_,     \* its local `exporters`: the backends of the instances created
    su_started,     \* the exporter instances start() was called on
    su_exported,    \* the exporter instances export() was called on
    su_ret          \* what the call gave: the handle or an exception

setupVars == <<_telemetry, su_pc, su_arg, su_i, exporters_, su_started, su_exported, su_ret>>

VARIABLES
    file,            \* the lines of the file at FileExporter.file_path (<<>>: absent)
    rotate_size_mb,  \* self.rotate_size_mb, in the unit of one line's size
    rotated,         \* how many times the file was renamed away
    f_before,        \* the lines the file held when the exporter was created
    f_true           \* the records of the export calls that returned True, in order

fileVars == <<file, rotate_size_mb, rotated, f_before, f_true>>

VARIABLES
    d_span,         \* one Span object: its attributes as a mapping from name to value
    d_out,          \* the mapping the last to_dict or send_span call built
    d_by,           \* which of the two built it ("none" before the first call)
    d_arg           \* what it was built from: the Span as it was, or the keywords

dictVars == <<d_span, d_out, d_by, d_arg>>

VARIABLES
    _trace_id,      \* thread -> the thread-local value: NoValue, None or an id
    uuids,          \* how many ids uuid4 has produced
    t_log,          \* thread -> the spans created on it, in order, each with
                    \* the calls that preceded it on the thread
    t_calls         \* thread -> new_trace calls, assignments, the id the last
                    \* new_trace returned, and whether it was assigned over since

traceVars == <<_trace_id, uuids, t_log, t_calls>>

VARIABLES
    r_exporters,    \* the adapters of a fan-out, by kind, in list order
    r_span_data,    \* the dict object the caller passes to export, as it is now
    r_given,        \* its keys and values when the caller passed it
    r_pc,           \* "idle", "loop" (inside MultiExporter.export), "done"
    r_i,            \* the member the loop is at
    r_received      \* what each member's export was given, in order

recVars == <<r_exporters, r_span_data, r_given, r_pc, r_i, r_received>>

VARIABLES
    _metrics,       \* llm_requests_total and llm_errors_total of a PrometheusExporter
    p_pc,           \* caller -> "idle", "lock" (at `with self._lock:`), "push"
    p_span_data,    \* caller -> the record of its call
    p_ret,          \* caller -> what its last call gave: "true", "false", "raised"
    p_calls         \* the export calls made so far: how many, and how many
                    \* with is_error set

promVars == <<_metrics, p_pc, p_span_data, p_ret, p_calls>>

VARIABLES
    fl_lock,        \* the owner of FileExporter._lock, or NoThread
    fl_pc,          \* caller -> "idle", "lock", "check", "write", "close"
    fl_rec,         \* caller -> the record of its call
    fl_calls,       \* the export calls made so far
    fl_gone         \* the lines that rotations moved away with the file

flockVars == <<fl_lock, fl_pc, fl_rec, fl_calls, fl_gone>>

VARIABLES
    h_telemetry,    \* the module global _telemetry: a handle's number, 0 for None
    h_exporters,    \* handle number -> the batching exporter built for it
    h_pc,           \* setup_telemetry: "idle", "start", "assign"
    h_got,          \* what the last get_telemetry call gave
    h_last,         \* the handle of the most recent setup that returned
    h_exports       \* the records exported so far

handleVars == <<h_telemetry, h_exporters, h_pc, h_got, h_last, h_exports>>

vars == <<adapterVars, multiVars, spanVars, baseVars, cwVars, esVars, setupVars, fileVars, dictVars, traceVars, recVars, promVars, flockVars, handleVars>>

\* A span record is named by the order of its export call: 1, 2, ...
Ids(q) == {q[i] : i \in 1..Len(q)}

\* ------------------------------------------------------- SplunkHECExporter
\* __init__: empty queue, free lock, no thread, not running.  `callers` and
\* `spawnable` are the threads of the run: those that call the adapter and those
\* start() may create.
InitAdapter(sizes, callers, spawnable) ==
    /\ batch_size \in sizes
    /\ _batch = <<>>
    /\ _lock = NoThread
    /\ _running = FALSE
    /\ _flush_thread = NoThread
    /\ pc = [th \in Threads |-> IF th \in callers THEN "idle"
                                ELSE IF th \in spawnable THEN "unborn" ELSE "absent"]
    /\ op = [th \in Threads |-> "none"]
    /\ batch = [th \in Threads |-> <<>>]
    /\ span_data = [th \in Callers |-> 0]
    /\ ret = [th \in Callers |-> "none"]
    /\ sends = {}
    /\ nextId = 1
    /\ hist = [plain |-> TRUE, stopDirty |-> [th \in Callers |-> FALSE],
               handed |-> [id \in 1..MaxRecords |-> 0],
               last |-> IF Cardinality(callers) = 1 THEN "none" ELSE "off",
               again |-> {}]

Busy(th) == pc[th] \notin {"idle", "absent"}
InExport(th) == op[th] = "export"
InStop(th) == op[th] = "stop"

\* History kept at a call of `kind` by caller t.  plain: so far the export calls
\* came one after the other and nothing but export's own size test flushed.
\* stopDirty[u]: an export call ran while u's stop() was running.  handed[id]:
\* how many times record id was in a batch handed to _send_batch.  last: when the
\* calls come from one thread, the call made before this one ("off" when several
\* threads call).  again: the kinds of call that were made twice in a row.
HistAtCall(t, kind) ==
    [hist EXCEPT
     !.again = IF kind = hist.last /\ kind \in {"start", "stop"} THEN @ \cup {kind} ELSE @,
     !.plain = /\ hist.plain
               /\ kind \notin {"flush", "stop"}
               /\ ~\E u \in Callers \ {t} : InExport(u)
               /\ ~(kind = "export" /\ \E u \in Callers \ {t} : Busy(u)),
     !.stopDirty = [u \in Callers |->
                      IF u = t THEN kind = "stop" /\ \E v \in Callers \ {t} : InExport(v)
                      ELSE hist.stopDirty[u] \/ (kind = "export" /\ InStop(u))]]

\* History kept when caller t returns from (or raises out of) a call of `kind`.
HistAtReturn(h, t, kind) ==
    [h EXCEPT !.stopDirty = [@ EXCEPT ![t] = FALSE],
              !.last = IF @ = "off" THEN @ ELSE kind]

HistAtHandOff(q) ==
    [hist EXCEPT !.handed = [id \in 1..MaxRecords |->
                               @[id] + Cardinality({i \in 1..Len(q) : q[i] = id})]]

\* `len(self._batch) >= self.batch_size`
ShouldFlushStrict(q) == Len(q) > batch_size
should_flush(q) == Len(q) >= batch_size

\* flush's `if not self._batch: return`; BelowBatchSize is the bug a size
\* threshold in flush would be.
BelowBatchSize(q) == Len(q) < batch_size
Empty(q) == q = <<>>

\* `self._batch = []` after the copy was taken.
SwappedKeep(q) == q
Swapped(q) == <<>>

\* What a call gives back when it returns normally, `sent` being what
\* _send_batch gave.
ReturnValue(th, sent) ==
    CASE op[th] = "export" /\ batch_size <= 1 -> sent
      [] op[th] = "export" -> "true"
      [] OTHER -> "void"

\* Thread th leaves its call: a caller is idle again with the call's outcome, the
\* background thread goes back to its loop test, or dies of an exception.
LeaveWith(th, outcome, h) ==
    /\ pc' = [pc EXCEPT ![th] =
                IF th \in Callers THEN "idle"
                ELSE IF outcome = "raised" THEN "dead" ELSE "l_check"]
    /\ op' = [op EXCEPT ![th] = IF th \in Callers THEN "none" ELSE @]
    /\ ret' = IF th \in Callers THEN [ret EXCEPT ![th] = outcome] ELSE ret
    /\ hist' = IF th \in Callers THEN HistAtReturn(h, th, op[th]) ELSE h

Leave(th, outcome) == LeaveWith(th, outcome, hist)

\* export(span_data): unbatched goes straight to _send_batch([span_data]);
\* batched enters `with self._lock:`.
ExportCall(t) ==
    /\ t \in Callers /\ pc[t] = "idle"
    /\ nextId <= MaxRecords
    /\ nextId' = nextId + 1
    /\ op' = [op EXCEPT ![t] = "export"]
    /\ hist' = HistAtCall(t, "export")
    /\ ret' = [ret EXCEPT ![t] = "none"]
    /\ IF batch_size <= 1
       THEN /\ batch' = [batch EXCEPT ![t] = <<nextId>>]
            /\ pc' = [pc EXCEPT ![t] = "send_batch"]
            /\ UNCHANGED <<_lock, span_data>>
       ELSE /\ _lock = NoThread
            /\ _lock' = t
            /\ span_data' = [span_data EXCEPT ![t] = nextId]
            /\ pc' = [pc EXCEPT ![t] = "e_crit"]
            /\ UNCHANGED batch
    /\ UNCHANGED <<batch_size, _batch, _running, _flush_thread, sends>>

\* export, under the lock: append, test the size, leave the lock; then flush if
\* the size is reached, else return True.
ExportAppend(t) ==
    /\ pc[t] = "e_crit" /\ _lock = t
    /\ _batch' = Append(_batch, span_data[t])
    /\ _lock' = NoThread
    /\ span_data' = [span_data EXCEPT ![t] = 0]
    /\ IF should_flush(_batch')
       THEN pc' = [pc EXCEPT ![t] = "f_lock"] /\ UNCHANGED <<ret, op, hist>>
       ELSE Leave(t, "true")
    /\ UNCHANGED <<batch_size, _running, _flush_thread, batch, sends, nextId>>

\* flush() called by a caller.
FlushCall(t) ==
    /\ t \in Callers /\ pc[t] = "idle"
    /\ op' = [op EXCEPT ![t] = "flush"]
    /\ pc' = [pc EXCEPT ![t] = "f_lock"]
    /\ hist' = HistAtCall(t, "flush")
    /\ ret' = [ret EXCEPT ![t] = "none"]
    /\ UNCHANGED <<batch_size, _batch, _lock, _running, _flush_thread, batch,
                   span_data, sends, nextId>>

\* flush: `with self._lock:` entered.
FlushAcquire(th) ==
    /\ pc[th] = "f_lock" /\ _lock = NoThread
    /\ _lock' = th
    /\ pc' = [pc EXCEPT ![th] = "f_crit"]
    /\ UNCHANGED <<batch_size, _batch, _running, _flush_thread, op, batch,
                   span_data, ret, sends, nextId, hist>>

\* The owner of the lock once flush's `with self._lock:` block is left, which is
\* before _send_batch is called; StillHeld is _send_batch called inside the block.
StillHeld(th) == th
Released(th) == NoThread

\* flush, under the lock: return on an empty queue, else copy the queue and swap
\* in an empty one; the lock is left before _send_batch is called.
FlushSwap(th) ==
    /\ pc[th] = "f_crit" /\ _lock = th
    /\ _lock' = Released(th)
    /\ IF Empty(_batch)
       THEN /\ Leave(th, ReturnValue(th, "true"))
            /\ UNCHANGED <<_batch, batch>>
       ELSE /\ batch' = [batch EXCEPT ![th] = _batch]
            /\ _batch' = Swapped(_batch)
            /\ pc' = [pc EXCEPT ![th] = "send_batch"]
            /\ UNCHANGED <<ret, op, hist>>
    /\ UNCHANGED <<batch_size, _running, _flush_thread, span_data, sends, nextId>>

\* _send_batch(batch): the events are serialized with json.dumps outside any try,
\* so a batch holding a value json.dumps rejects (`raises`) throws out of
\* _send_batch, flush and export; otherwise the payload goes to _send.
SendBatch(th, raises) ==
    /\ pc[th] = "send_batch"
    /\ IF batch[th] = <<>>
       THEN /\ Leave(th, ReturnValue(th, "true"))
            /\ UNCHANGED <<sends, batch>>
       ELSE IF raises
       THEN /\ sends' = sends \cup {[batch |-> batch[th], st |-> "raised"]}
            /\ batch' = [batch EXCEPT ![th] = <<>>]
            /\ LeaveWith(th, "raised", HistAtHandOff(batch[th]))
       ELSE /\ sends' = sends \cup {[batch |-> batch[th], st |-> "flight"]}
            /\ pc' = [pc EXCEPT ![th] = "send"]
            /\ hist' = HistAtHandOff(batch[th])
            /\ UNCHANGED <<ret, batch, op>>
    /\ UNCHANGED <<batch_size, _batch, _lock, _running, _flush_thread, span_data, nextId>>

\* The queue after the send of `failed` failed: _send logs and returns False, and
\* nothing touches self._batch.  PutBack is the retry the code does not have.
PutBack(q, failed) == failed \o q
Dropped(q, failed) == q

\* _send(payload): urlopen answers 200 ("true"), or answers otherwise or throws,
\* which is caught and logged ("false").
Send(th, outcome) ==
    /\ pc[th] = "send"
    /\ outcome \in {"true", "false"}
    /\ sends' = (sends \ {[batch |-> batch[th], st |-> "flight"]})
                    \cup {[batch |-> batch[th], st |-> outcome]}
    /\ batch' = [batch EXCEPT ![th] = <<>>]
    /\ _batch' = IF outcome = "false" THEN Dropped(_batch, batch[th]) ELSE _batch
    /\ Leave(th, ReturnValue(th, outcome))
    /\ UNCHANGED <<batch_size, _lock, _running, _flush_thread, span_data, nextId>>

\* stop(): clear the flag, then flush.
StopCall(t) ==
    /\ t \in Callers /\ pc[t] = "idle"
    /\ _running' = FALSE
    /\ op' = [op EXCEPT ![t] = "stop"]
    /\ pc' = [pc EXCEPT ![t] = "f_lock"]
    /\ hist' = HistAtCall(t, "stop")
    /\ ret' = [ret EXCEPT ![t] = "none"]
    /\ UNCHANGED <<batch_size, _batch, _lock, _flush_thread, batch,
                   span_data, sends, nextId>>

\* A thread start() can still create.
Spawnable == {b \in BgThreads : pc[b] = "unborn"}

\* start() without its `if self._running: return`: the bug a missing guard
\* would be.
StartCallUnguarded(t) ==
    /\ t \in Callers /\ pc[t] = "idle"
    /\ batch_size > 1 => Spawnable # {}
    /\ pc' = [pc EXCEPT ![t] = "st_set"]
    /\ op' = [op EXCEPT ![t] = "start"]
    /\ hist' = HistAtCall(t, "start")
    /\ ret' = [ret EXCEPT ![t] = "none"]
    /\ UNCHANGED <<batch_size, _batch, _lock, _running, _flush_thread, batch,
                   span_data, sends, nextId>>

\* start(): `if self._running: return`.
StartCall(t) ==
    /\ t \in Callers /\ pc[t] = "idle"
    /\ (batch_size > 1 /\ ~_running) => Spawnable # {}
    /\ IF _running
       THEN /\ ret' = [ret EXCEPT ![t] = "void"]
            /\ hist' = HistAtReturn(HistAtCall(t, "start"), t, "start")
            /\ UNCHANGED <<pc, op>>
       ELSE /\ pc' = [pc EXCEPT ![t] = "st_set"]
            /\ op' = [op EXCEPT ![t] = "start"]
            /\ hist' = HistAtCall(t, "start")
            /\ ret' = [ret EXCEPT ![t] = "none"]
    /\ UNCHANGED <<batch_size, _batch, _lock, _running, _flush_thread, batch,
                   span_data, sends, nextId>>

\* start(): `self._running = True`, then the test of batch_size.
StartSet(t) ==
    /\ pc[t] = "st_set"
    /\ _running' = TRUE
    /\ IF batch_size > 1
       THEN pc' = [pc EXCEPT ![t] = "st_spawn"] /\ UNCHANGED <<ret, op, hist>>
       ELSE Leave(t, "void")
    /\ UNCHANGED <<batch_size, _batch, _lock, _flush_thread, batch,
                   span_data, sends, nextId>>

\* start(): a new daemon thread running _flush_loop is created and started.
StartSpawn(t, b) ==
    /\ pc[t] = "st_spawn"
    /\ b \in Spawnable
    /\ _flush_thread' = b
    /\ pc' = [pc EXCEPT ![t] = "idle", ![b] = "l_check"]
    /\ op' = [op EXCEPT ![t] = "none", ![b] = "loop"]
    /\ ret' = [ret EXCEPT ![t] = "void"]
    /\ hist' = HistAtReturn(hist, t, "start")
    /\ UNCHANGED <<batch_size, _batch, _lock, _running, batch, span_data, sends,
                   nextId>>

\* _flush_loop: `while self._running:` then sleep(flush_interval), then flush().
FlushLoop(b) ==
    /\ b \in BgThreads /\ pc[b] = "l_check"
    /\ IF _running
       THEN /\ pc' = [pc EXCEPT ![b] = "f_lock"]
            /\ hist' = [hist EXCEPT !.plain = FALSE]
       ELSE /\ pc' = [pc EXCEPT ![b] = "exited"]
            /\ UNCHANGED hist
    /\ UNCHANGED <<batch_size, _batch, _lock, _running, _flush_thread, op, batch,
                   span_data, ret, sends, nextId>>


\* ---------------------------------------------------------- MultiExporter
\* The records handed to MultiExporter.export.
SpanArgs == {"r1", "r2"}
BroadcastOps == {"start", "stop", "flush"}

\* __init__(exporters): the list is kept as given.
InitMulti(lengths) ==
    /\ \E n \in lengths : exporters = [i \in 1..n |-> i]
    /\ m_pc = "idle"
    /\ m_op = "none"
    /\ m_arg = "none"
    /\ m_i = 1
    /\ results = <<>>
    /\ callLog = <<>>
    /\ m_ret = "none"

\* `any(results)`
all(r) == \A i \in 1..Len(r) : r[i]
any(r) == \E i \in 1..Len(r) : r[i]

\* One member call as the mock or adapter saw it.
MemberCall(i, kind, arg, out) == [m |-> exporters[i], op |-> kind, arg |-> arg, out |-> out]

\* A call of export, start, stop or flush enters its `for exp in self.exporters`.
MultiCall(kind, arg) ==
    /\ m_pc = "idle"
    /\ kind \in BroadcastOps \cup {"export"}
    /\ arg \in (IF kind = "export" THEN SpanArgs ELSE {"none"})
    /\ m_pc' = "loop"
    /\ m_op' = kind
    /\ m_arg' = arg
    /\ m_i' = 1
    /\ results' = <<>>
    /\ callLog' = <<>>
    /\ m_ret' = "none"
    /\ UNCHANGED exporters

\* export, one turn of the loop, exception not caught: the bug a missing
\* try/except would be.
MultiExportStepUncaught(out) ==
    /\ m_pc = "loop" /\ m_op = "export" /\ m_i <= Len(exporters)
    /\ out \in {"true", "false", "raised"}
    /\ callLog' = Append(callLog, MemberCall(m_i, "export", m_arg, out))
    /\ IF out = "raised"
       THEN m_pc' = "idle" /\ m_ret' = "raised" /\ UNCHANGED <<results, m_i>>
       ELSE /\ results' = Append(results, out = "true")
            /\ m_i' = m_i + 1
            /\ UNCHANGED <<m_pc, m_ret>>
    /\ UNCHANGED <<exporters, m_op, m_arg>>

\* export, one turn of the loop: the member's export is called with span_data and
\* its answer appended; an exception is caught, logged and appended as False.
MultiExportStep(out) ==
    /\ m_pc = "loop" /\ m_op = "export" /\ m_i <= Len(exporters)
    /\ out \in {"true", "false", "raised"}
    /\ callLog' = Append(callLog, MemberCall(m_i, "export", m_arg, out))
    /\ results' = Append(results, out = "true")
    /\ m_i' = m_i + 1
    /\ UNCHANGED <<exporters, m_pc, m_op, m_arg, m_ret>>

\* export, after the loop: `return any(results)`.
MultiExportReturn ==
    /\ m_pc = "loop" /\ m_op = "export" /\ m_i > Len(exporters)
    /\ m_ret' = IF any(results) THEN "true" ELSE "false"
    /\ m_pc' = "idle"
    /\ UNCHANGED <<exporters, m_op, m_arg, m_i, results, callLog>>

\* start, stop, flush, one turn of the loop: the member's method is called with no
\* try around it, so an exception leaves the loop and the call.
MultiBroadcastStep(out) ==
    /\ m_pc = "loop" /\ m_op \in BroadcastOps /\ m_i <= Len(exporters)
    /\ out \in {"void", "raised"}
    /\ callLog' = Append(callLog, MemberCall(m_i, m_op, m_arg, out))
    /\ IF out = "raised"
       THEN m_pc' = "idle" /\ m_ret' = "raised" /\ UNCHANGED m_i
       ELSE m_i' = m_i + 1 /\ UNCHANGED <<m_pc, m_ret>>
    /\ UNCHANGED <<exporters, m_op, m_arg, results>>

\* start, stop, flush, after the loop: return None.
MultiBroadcastReturn ==
    /\ m_pc = "loop" /\ m_op \in BroadcastOps /\ m_i > Len(exporters)
    /\ m_ret' = "void"
    /\ m_pc' = "idle"
    /\ UNCHANGED <<exporters, m_op, m_arg, m_i, results, callLog>>

\* ------------------------------------------------------ CloudWatchExporter
\* __init__ adds `self._sequence_token = None` to the common adapter state.
InitCloudWatch(installed) ==
    /\ boto3 \in installed
    /\ _sequence_token = 0
    /\ kwargs = [th \in Threads |-> 0]
    /\ response = [th \in Threads |-> 0]
    /\ stream = 0
    /\ puts = {}

\* _send_batch(batch), up to the put: `import boto3` fails with ImportError, or
\* json.dumps rejects a record (`raises`); both are caught by the outer try and
\* give False.  Otherwise kwargs is built, with the sequence token if one is set.
CwSendBatch(th, raises) ==
    /\ pc[th] = "send_batch"
    /\ IF batch[th] = <<>>
       THEN /\ Leave(th, ReturnValue(th, "true"))
            /\ UNCHANGED <<sends, batch, kwargs>>
       ELSE IF ~boto3 \/ raises
       THEN /\ sends' = sends \cup {[batch |-> batch[th], st |-> "false"]}
            /\ batch' = [batch EXCEPT ![th] = <<>>]
            /\ LeaveWith(th, ReturnValue(th, "false"), HistAtHandOff(batch[th]))
            /\ UNCHANGED kwargs
       ELSE /\ sends' = sends \cup {[batch |-> batch[th], st |-> "flight"]}
            /\ kwargs' = [kwargs EXCEPT ![th] = _sequence_token]
            /\ pc' = [pc EXCEPT ![th] = "cw_put"]
            /\ hist' = HistAtHandOff(batch[th])
            /\ UNCHANGED <<ret, batch, op>>
    /\ UNCHANGED <<batch_size, _batch, _lock, _running, _flush_thread, span_data, nextId>>
    /\ UNCHANGED <<boto3, _sequence_token, response, stream, puts>>

\* The send of th's batch is over with outcome st; _send_batch returns it.
CwDone(th, st) ==
    /\ sends' = (sends \ {[batch |-> batch[th], st |-> "flight"]})
                    \cup {[batch |-> batch[th], st |-> st]}
    /\ batch' = [batch EXCEPT ![th] = <<>>]
    /\ kwargs' = [kwargs EXCEPT ![th] = 0]
    /\ response' = [response EXCEPT ![th] = 0]
    /\ Leave(th, ReturnValue(th, st))

\* client.put_log_events(**kwargs), the first call (`first`) or the one made
\* after a ResourceNotFoundException and the creation of group and stream.  The
\* service accepts it and returns the next token, or reports the stream missing
\* (first call only), or fails otherwise, which the outer try turns into False.
CwPut(th, first, outcome) ==
    /\ pc[th] = IF first THEN "cw_put" ELSE "cw_retry"
    /\ outcome \in {"ok", "fail"} \cup (IF first THEN {"notfound"} ELSE {})
    /\ puts' = puts \cup {[supplied |-> kwargs[th], expected |-> stream]}
    /\ CASE outcome = "ok" ->
              /\ stream' = stream + 1
              /\ response' = [response EXCEPT ![th] = stream + 1]
              /\ pc' = [pc EXCEPT ![th] = "cw_store"]
              /\ UNCHANGED <<sends, batch, kwargs, op, ret, hist>>
         [] outcome = "notfound" ->
              /\ pc' = [pc EXCEPT ![th] = "cw_retry"]
              /\ UNCHANGED <<stream, response, sends, batch, kwargs, op, ret, hist>>
         [] outcome = "fail" ->
              /\ CwDone(th, "false")
              /\ UNCHANGED stream
    /\ UNCHANGED <<batch_size, _batch, _lock, _running, _flush_thread, span_data, nextId>>
    /\ UNCHANGED <<boto3, _sequence_token>>

\* `self._sequence_token = response.get("nextSequenceToken")`, `return True`.
CwStore(th) ==
    /\ pc[th] = "cw_store"
    /\ _sequence_token' = response[th]
    /\ CwDone(th, "true")
    /\ UNCHANGED <<batch_size, _batch, _lock, _running, _flush_thread, span_data, nextId>>
    /\ UNCHANGED <<boto3, stream, puts>>

\* --------------------------------------------------- ElasticsearchExporter
\* A host URL: its text up to the trailing "/" characters, and how many of those
\* follow.
HostUrls == [name : {"A", "B", "C"}, slashes : 0..1]
DefaultHost == [name |-> "http://localhost:9200", slashes |-> 0]
HostLists(lengths) == UNION {[1..n -> HostUrls] : n \in lengths}

\* __init__: `self.hosts = hosts or ["http://localhost:9200"]`, index 0.
InitElasticsearch(lengths) ==
    /\ es_given \in HostLists(lengths)
    /\ hosts = IF es_given = <<>> THEN <<DefaultHost>> ELSE es_given
    /\ _host_index = 0
    /\ es_calls = <<>>

\* host.rstrip("/")
rstrip(host) == [host EXCEPT !.slashes = 0]

\* The position (from 1) of `self.hosts[self._host_index % len(self.hosts)]`;
\* HostAtNoWrap is the index without the modulo, held at the last host.
HostAtNoWrap(i, n) == IF i < n THEN i + 1 ELSE n
HostAt(i, n) == (i % n) + 1

\* _get_host(): the host at the index, the index incremented, the host returned
\* without its trailing slashes.
GetHost ==
    /\ Len(es_calls) < MaxCalls
    /\ es_calls' = Append(es_calls, rstrip(hosts[HostAt(_host_index, Len(hosts))]))
    /\ _host_index' = _host_index + 1
    /\ UNCHANGED <<hosts, es_given>>

\* --------------------------------------------------------- setup_telemetry
\* Backend names as given, and what one config says: its type and whether the
\* credentials its backend requires are in it.
SetupTypes == {"console", "CONSOLE", "splunk", "bogus"}
Configs == {c \in [type : SetupTypes, creds : BOOLEAN] : c.type # "splunk" => c.creds}
SetupArgs ==
    [kind : {"list"}, cfgs : UNION {[1..n -> Configs] : n \in 0..MaxConfigs},
     console : BOOLEAN, file_path : BOOLEAN]
    \cup [kind : {"str"}, cfgs : [1..1 -> Configs], console : BOOLEAN, file_path : BOOLEAN]

\* The instance of an earlier, successful setup_telemetry("app") call.
PriorInstance == 0

\* Before the call: no handle, or the handle of an earlier setup whose console
\* exporter was started.
InitSetup(priors) ==
    /\ _telemetry \in priors
    /\ su_pc = "idle"
    /\ su_arg = [kind |-> "none", cfgs |-> <<>>, console |-> FALSE, file_path |-> FALSE]
    /\ su_i = 1
    /\ exporters_ = <<>>
    /\ su_started = _telemetry
    /\ su_exported = {}
    /\ su_ret = "none"

\* exporter_type.lower()
lower(name) == IF name = "CONSOLE" THEN "console" ELSE name

\* The names _create_exporter has a branch for.
Recognized == {"splunk", "elasticsearch", "es", "elastic", "otlp", "opentelemetry",
               "otel", "datadog", "prometheus", "loki", "cloudwatch", "aws", "file",
               "console"}

\* _create_exporter falling back to the console exporter for an unknown name:
\* the bug a lenient default would be.
create_exporter_lenient(cfg) ==
    LET t == lower(cfg.type) IN
    IF t = "splunk" THEN (IF cfg.creds THEN "splunk" ELSE "ValueError")
    ELSE IF t \in Recognized THEN t ELSE "console"

\* _create_exporter(exporter_type, config): the backend of the instance built, or
\* the ValueError of a missing credential or of an unknown name.
_create_exporter(cfg) ==
    LET t == lower(cfg.type) IN
    IF t = "splunk" THEN (IF cfg.creds THEN "splunk" ELSE "ValueError")
    ELSE IF t \in Recognized THEN t ELSE "ValueError"

\* setup_telemetry(workflow_name, exporter=..., console=..., file_path=...) called.
SetupCall(arg) ==
    /\ su_pc = "idle"
    /\ arg \in SetupArgs
    /\ su_pc' = "create"
    /\ su_arg' = arg
    /\ su_i' = 1
    /\ exporters_' = <<>>
    /\ su_ret' = "none"
    /\ UNCHANGED <<_telemetry, su_started, su_exported>>

\* The started exporters after one more instance was built and appended: the
\* constructors start nothing, start() is called once on the final exporter.
\* StartedAtCreation is a setup that starts each instance as it is built.
StartedAtCreation(started, member) == started \cup {member}
StartedLater(started, member) == started

\* One _create_exporter call (the only one for a name, one per config for a list):
\* the instance is appended, or the ValueError leaves setup_telemetry.
SetupCreate ==
    /\ su_pc = "create" /\ su_i <= Len(su_arg.cfgs)
    /\ LET made == _create_exporter(su_arg.cfgs[su_i]) IN
        IF made = "ValueError"
        THEN /\ su_ret' = "ValueError"
             /\ su_pc' = "done"
             /\ UNCHANGED <<su_i, exporters_, su_started>>
        ELSE /\ exporters_' = Append(exporters_, made)
             /\ su_started' = StartedLater(su_started, Len(exporters_'))
             /\ su_i' = su_i + 1
             /\ UNCHANGED <<su_ret, su_pc>>
    /\ UNCHANGED <<_telemetry, su_arg, su_exported>>

\* `exporters` after the console, file and default additions.
WithDefaults(made, arg) ==
    LET c == IF arg.console /\ ~\E i \in 1..Len(made) : made[i] = "console"
             THEN Append(made, "console") ELSE made
        f == IF arg.file_path /\ ~\E i \in 1..Len(c) : c[i] = "file"
             THEN Append(c, "file") ELSE c
    IN IF f = <<>> THEN <<"console">> ELSE f

\* After the creation: the additions, final_exporter.start() (a MultiExporter
\* starts every member), the handle replaced and returned.
SetupFinish ==
    /\ su_pc = "create" /\ su_i > Len(su_arg.cfgs)
    /\ exporters_' = WithDefaults(exporters_, su_arg)
    /\ su_started' = su_started \cup (1..Len(exporters_'))
    /\ _telemetry' = 1..Len(exporters_')
    /\ su_ret' = "telemetry"
    /\ su_pc' = "done"
    /\ UNCHANGED <<su_arg, su_i, su_exported>>

\* The application records a span through the active handle, at any time.
TelemetryExport ==
    /\ _telemetry # {}
    /\ su_exported' = su_exported \cup _telemetry
    /\ UNCHANGED <<_telemetry, su_pc, su_arg, su_i, exporters_, su_started, su_ret>>

\* ------------------------------------------------- Span.to_dict, send_span
\* An attribute that is None.
None == "<None>"
\* Values are written as text: None, the empty string, zero, a set value.
OptValues == {None, "", "0", "7"}
\* The keys every record carries, and the optional fields modelled (of the
\* eighteen of to_dict, which treats them all alike but the two token counts).
AlwaysKeys == {"trace_id", "span_id", "name", "span_type", "timestamp", "duration_ms",
               "status", "is_error"}
OptionalFields == {"model_name", "input_tokens", "output_tokens"}
SpanTypes == {"LLM", "TOOL"}
\* What a caller passes to set_attribute, or as extra keyword to send_span.
AttrKeys == {"status", "model_name"}
AttrValues == {"", "x"}
NoDict == [k \in {} |-> ""]
\* No Span object: send_span builds its record without one.
NoSpan == [span_type |-> "none"]

\* Span.__init__(trace_id, span_id, name, span_type, workflow_name, **kwargs):
\* the optional fields as given, no attribute, not finished.
InitDict(types) ==
    /\ \/ \E ty \in types, opt \in [OptionalFields -> OptValues] :
             d_span = [span_type |-> ty, duration_ms |-> None, status |-> "OK",
                       opt |-> opt, attributes |-> NoDict]
       \/ d_span = NoSpan
    /\ d_out = NoDict
    /\ d_by = "none"
    /\ d_arg = NoDict

\* The filter of to_dict's loop over optional_fields:
\* `value is not None and value != "" and value != 0`.  KeptUnlessNone keeps
\* the empty and the zero values.
KeptUnlessNone(value) == value # None
Kept(value) == value \notin {None, "", "0"}

\* `x or 0`
OrZero(value) == IF value \in {None, "", "0"} THEN "0" ELSE value

\* dict.update: the keys of `a` added to, or replacing, those of `d`;
\* UpdateReplaced is the assignment `data = self.attributes` in its place.
UpdateReplaced(d, a) == a
update(d, a) == [k \in DOMAIN d \cup DOMAIN a |-> IF k \in DOMAIN a THEN a[k] ELSE d[k]]

\* Span.to_dict(): the always-present keys, the optional fields that pass the
\* filter, the two token counts of an LLM span, then the attributes.
Span_to_dict(sp) ==
    LET always == [k \in AlwaysKeys |->
                     CASE k = "span_type" -> sp.span_type
                       [] k = "duration_ms" -> OrZero(sp.duration_ms)
                       [] k = "status" -> sp.status
                       [] k = "is_error" -> "0"
                       [] OTHER -> k]
        kept == {f \in OptionalFields : Kept(sp.opt[f])}
        tokens == IF sp.span_type = "LLM" THEN {"input_tokens", "output_tokens"} ELSE {}
        data == [k \in AlwaysKeys \cup kept \cup tokens |->
                   IF k \in AlwaysKeys THEN always[k]
                   ELSE IF k \in tokens THEN OrZero(sp.opt[k])
                   ELSE sp.opt[k]]
    IN IF sp.attributes = NoDict THEN data ELSE update(data, sp.attributes)

\* send_span(span_type, name, duration_ms, **kw): the fixed keys (status and
\* is_error popped from kw), then the other keywords that are neither None nor "".
send_span_dict(ty, duration, kw) ==
    LET fixed == [k \in AlwaysKeys \cup {"parent_span_id", "workflow_name"} |->
                    CASE k = "span_type" -> ty
                      [] k = "duration_ms" -> OrZero(duration)
                      [] k = "status" -> IF "status" \in DOMAIN kw THEN kw["status"] ELSE "OK"
                      [] k = "is_error" -> "0"
                      [] k = "parent_span_id" -> None
                      [] OTHER -> k]
        rest == {k \in DOMAIN kw \ {"status", "is_error"} : kw[k] \notin {None, ""}}
    IN [k \in DOMAIN fixed \cup rest |-> IF k \in rest THEN kw[k] ELSE fixed[k]]

\* span.set_attribute(key, value)
SetAttribute(key, value) ==
    /\ key \in AttrKeys /\ value \in AttrValues
    /\ d_span # NoSpan
    /\ d_span' = [d_span EXCEPT !.attributes = update(@, [k \in {key} |-> value])]
    /\ UNCHANGED <<d_out, d_by, d_arg>>

\* span.finish(): the duration is set (it may round to zero).
SpanFinish(duration) ==
    /\ duration \in {"0", "7"}
    /\ d_span # NoSpan
    /\ d_span.duration_ms = None
    /\ d_span' = [d_span EXCEPT !.duration_ms = duration]
    /\ UNCHANGED <<d_out, d_by, d_arg>>

\* span.to_dict() called (by start_span's finally clause, or by anyone).
ToDict ==
    /\ d_span # NoSpan
    /\ d_out' = Span_to_dict(d_span)
    /\ d_by' = "to_dict"
    /\ d_arg' = d_span
    /\ UNCHANGED d_span

\* telemetry.send_span(...) called with these keywords.
SendSpan(ty, duration, kw) ==
    /\ ty \in SpanTypes /\ duration \in {None, "0", "7"}
    /\ d_span = NoSpan
    /\ d_out' = send_span_dict(ty, duration, kw)
    /\ d_by' = "send_span"
    /\ d_arg' = kw
    /\ UNCHANGED d_span

\* The keyword mappings send_span is called with.
Keywords == UNION {[ks -> AttrValues \cup {None}] : ks \in SUBSET AttrKeys}

\* ------------------------------------------------------------ FileExporter
\* Python values a record can hold, by type and text: a key is a str or an int,
\* a value a str, a list, a tuple or an object json.dumps has no encoding for.
PyKeys == {[t |-> "str", v |-> "name"], [t |-> "int", v |-> "1"]}
PyValues == {[t |-> "str", v |-> "chat"], [t |-> "list", v |-> "[1]"],
             [t |-> "tuple", v |-> "[1]"], [t |-> "object", v |-> "<object>"]}
\* The records handed to FileExporter.export: one key, one value.
FileRecords == [key : PyKeys, val : PyValues]
\* A line already in the file when the exporter is created.
OldLine == [key |-> "old", jt |-> "string", v |-> "line"]
\* The sizes at which the file is rotated: always, after two lines, never.
RotateSizes == {0, 2, MaxRecords + 2}

\* __init__(file_path, rotate_size_mb): the file may exist already.
InitFile(sizes, befores) ==
    /\ rotate_size_mb \in sizes
    /\ f_before \in befores
    /\ file = f_before
    /\ rotated = 0
    /\ f_true = <<>>

\* Whether json.dumps(rec) raises TypeError.
Serializable(rec) == rec.val.t # "object"

\* json.dumps(rec): a key that is an int is written as the string of its digits,
\* a list and a tuple are both written as an array.
json_dumps(rec) ==
    [key |-> rec.key.v,
     jt |-> CASE rec.val.t = "str" -> "string"
              [] rec.val.t \in {"list", "tuple"} -> "array"
              [] OTHER -> "null",
     v |-> rec.val.v]

\* json.loads(line): keys are str, a string is a str, an array is a list.
json_loads(line) ==
    [key |-> [t |-> "str", v |-> line.key],
     val |-> [t |-> CASE line.jt = "string" -> "str"
                      [] line.jt = "array" -> "list"
                      [] OTHER -> "NoneType",
              v |-> line.v]]

\* `os.path.getsize(...) / (1024 * 1024) >= self.rotate_size_mb` on an existing
\* file.
ShouldRotate(lines) == lines # <<>> /\ Len(lines) >= rotate_size_mb

\* The file after `open(self.file_path, "a")` and the write of one line; the
\* overwriting variant is the bug opening with "w" would be.
WriteOver(lines, line) == <<line>>
WriteAppend(lines, line) == Append(lines, line)

\* export(span_data), under the lock: the file is renamed away if it is large
\* enough, then the line is appended and True returned; json.dumps raising, or
\* the open or write failing (`io_ok` false), is caught and gives False.
FileExport(rec, io_ok) ==
    /\ Len(f_true) + rotated < MaxRecords
    /\ rec \in FileRecords
    /\ LET kept == IF ShouldRotate(file) THEN <<>> ELSE file IN
        /\ rotated' = IF ShouldRotate(file) THEN rotated + 1 ELSE rotated
        /\ IF io_ok /\ Serializable(rec)
           THEN /\ file' = WriteAppend(kept, json_dumps(rec))
                /\ f_true' = Append(f_true, rec)
           ELSE /\ file' = kept
                /\ UNCHANGED f_true
    /\ UNCHANGED <<rotate_size_mb, f_before>>

\* FileExporter.export called from several threads: the same file, the lock,
\* and each call's position.
InitFileLock ==
    /\ fl_lock = NoThread
    /\ fl_pc = [t \in Callers |-> "idle"]
    /\ fl_rec = [t \in Callers |-> OldLine]
    /\ fl_calls = 0
    /\ fl_gone = 0

\* Whether `with self._lock:` lets a thread in; LockIgnored is no lock at all.
LockIgnored(owner) == TRUE
LockFree(owner) == owner = NoThread

\* A line whose text is written in part: the write of thread t is under way.
Partial(line, t) == [key |-> line.key, jt |-> "partial", v |-> t]

\* export(span_data) is called and reaches `with self._lock:`.
FileLockCall(t, rec) ==
    /\ t \in Callers /\ fl_pc[t] = "idle"
    /\ rec \in FileRecords
    /\ fl_calls < MaxRecords
    /\ fl_calls' = fl_calls + 1
    /\ fl_rec' = [fl_rec EXCEPT ![t] = rec]
    /\ fl_pc' = [fl_pc EXCEPT ![t] = "lock"]
    /\ UNCHANGED <<fl_lock, fl_gone, fileVars>>

\* The lock is taken.
FileLockAcquire(t) ==
    /\ fl_pc[t] = "lock" /\ LockFree(fl_lock)
    /\ fl_lock' = t
    /\ fl_pc' = [fl_pc EXCEPT ![t] = "check"]
    /\ UNCHANGED <<fl_rec, fl_calls, fl_gone, fileVars>>

\* The size check, and the rename when the file is large enough.
FileLockCheck(t) ==
    /\ fl_pc[t] = "check"
    /\ IF ShouldRotate(file)
       THEN /\ file' = <<>>
            /\ rotated' = rotated + 1
            /\ fl_gone' = fl_gone + Len(file)
       ELSE UNCHANGED <<file, rotated, fl_gone>>
    /\ fl_pc' = [fl_pc EXCEPT ![t] = "write"]
    /\ UNCHANGED <<fl_lock, fl_rec, fl_calls, rotate_size_mb, f_before, f_true>>

\* open(..., "a") and f.write(json.dumps(span_data) ...): the text starts to
\* reach the file; or json.dumps raises or the open fails (`io_ok` false), the
\* block is left and False returned.
FileLockWrite(t, io_ok) ==
    /\ fl_pc[t] = "write"
    /\ IF io_ok /\ Serializable(fl_rec[t])
       THEN /\ file' = WriteAppend(file, Partial(json_dumps(fl_rec[t]), t))
            /\ fl_pc' = [fl_pc EXCEPT ![t] = "close"]
            /\ UNCHANGED fl_lock
       ELSE /\ fl_pc' = [fl_pc EXCEPT ![t] = "idle"]
            /\ fl_lock' = IF fl_lock = t THEN NoThread ELSE fl_lock
            /\ UNCHANGED file
    /\ UNCHANGED <<fl_rec, fl_calls, fl_gone, rotate_size_mb, rotated, f_before, f_true>>

\* The rest of the text and the newline reach the file as it is closed; the
\* block is left and True returned.  If the file's last line is not the one this
\* thread began, its text lands after someone else's.
FileLockClose(t) ==
    /\ fl_pc[t] = "close"
    /\ LET mine == {i \in 1..Len(file) : file[i] = Partial(json_dumps(fl_rec[t]), t)}
           last == IF mine = {} THEN 0 ELSE CHOOSE i \in mine : \A j \in mine : j <= i IN
        file' = IF last = Len(file) /\ last > 0
                THEN [file EXCEPT ![last] = json_dumps(fl_rec[t])]
                ELSE Append(file, Partial(json_dumps(fl_rec[t]), t))
    /\ f_true' = Append(f_true, fl_rec[t])
    /\ fl_pc' = [fl_pc EXCEPT ![t] = "idle"]
    /\ fl_lock' = IF fl_lock = t THEN NoThread ELSE fl_lock
    /\ UNCHANGED <<fl_rec, fl_calls, fl_gone, rotate_size_mb, rotated, f_before>>

\* setup_telemetry called again and again: the handles, each with the batching
\* exporter built for it, and the global that names the active one.
InitHandles ==
    /\ h_telemetry = 0
    /\ h_exporters = <<>>
    /\ h_pc = "idle"
    /\ h_got = "none"
    /\ h_last = 0
    /\ h_exports = 0

\* A batching exporter as __init__ leaves it: nothing queued, no thread.
NewExporter == [running |-> FALSE, queue |-> 0, sent |-> 0, stops |-> 0, flushes |-> 0]

\* `_telemetry = GenAITelemetry(...)`: the global names the new handle;
\* KeptFirst is a setup that keeps a handle once there is one.
KeptFirst(old, new) == IF old = 0 THEN new ELSE old
Replaced(old, new) == new

\* setup_telemetry(...) up to the creation of its exporters: a configuration its
\* backend rejects raises ValueError out of the call, a valid one gives the
\* exporter of the new handle.
ResetupCreate(valid) ==
    /\ h_pc = "idle"
    /\ Len(h_exporters) < MaxMembers
    /\ IF valid
       THEN /\ h_exporters' = Append(h_exporters, NewExporter)
            /\ h_pc' = "start"
       ELSE UNCHANGED <<h_exporters, h_pc>>
    /\ UNCHANGED <<h_telemetry, h_got, h_last, h_exports>>

\* final_exporter.start(): the new exporter's background thread runs.
ResetupStart ==
    /\ h_pc = "start"
    /\ h_exporters' = [h_exporters EXCEPT ![Len(h_exporters)].running = TRUE]
    /\ h_pc' = "assign"
    /\ UNCHANGED <<h_telemetry, h_got, h_last, h_exports>>

\* The global is assigned and the handle returned.
ResetupAssign ==
    /\ h_pc = "assign"
    /\ h_telemetry' = Replaced(h_telemetry, Len(h_exporters))
    /\ h_last' = Len(h_exporters)
    /\ h_pc' = "idle"
    /\ UNCHANGED <<h_exporters, h_got, h_exports>>

\* get_telemetry(): the global, or RuntimeError while it is None.
get_telemetry ==
    /\ h_got' = IF h_telemetry = 0 THEN "RuntimeError" ELSE ToString(h_telemetry)
    /\ h_got' # h_got
    /\ UNCHANGED <<h_telemetry, h_exporters, h_pc, h_last, h_exports>>

\* The application exports a record through a handle it holds, the active one
\* or an earlier one: the record is queued, and the queue sent when it reaches
\* batch_size.
HandleExport(i) ==
    /\ i \in 1..Len(h_exporters)
    /\ h_pc = "idle" \/ i < Len(h_exporters)
    /\ h_exports < MaxRecords
    /\ h_exports' = h_exports + 1
    /\ h_exporters' =
          IF h_exporters[i].queue + 1 >= MaxBatchSize
          THEN [h_exporters EXCEPT ![i].queue = 0,
                                   ![i].sent = @ + h_exporters[i].queue + 1]
          ELSE [h_exporters EXCEPT ![i].queue = @ + 1]
    /\ UNCHANGED <<h_telemetry, h_pc, h_got, h_last>>

\* The background thread of a started exporter wakes up and flushes its queue.
HandleFlushLoop(i) ==
    /\ i \in 1..Len(h_exporters)
    /\ h_exporters[i].running /\ h_exporters[i].queue > 0
    /\ h_exporters' = [h_exporters EXCEPT ![i].queue = 0,
                                          ![i].sent = @ + h_exporters[i].queue,
                                          ![i].flushes = @ + 1]
    /\ UNCHANGED <<h_telemetry, h_pc, h_got, h_last, h_exports>>

\* The application stops the exporter of a handle it holds: stop() clears the
\* running flag and flushes.
HandleStop(i) ==
    /\ i \in 1..Len(h_exporters)
    /\ h_pc = "idle" \/ i < Len(h_exporters)
    /\ h_exporters[i].running
    /\ h_exporters' = [h_exporters EXCEPT ![i].running = FALSE,
                                          ![i].queue = 0,
                                          ![i].sent = @ + h_exporters[i].queue,
                                          ![i].stops = @ + 1,
                                          ![i].flushes = @ + 1]
    /\ UNCHANGED <<h_telemetry, h_pc, h_got, h_last, h_exports>>

\* ------------------------------------------------------------ BaseExporter
\* The lists export_batch is given.
Batches == UNION {[1..n -> SpanArgs] : n \in 0..MaxRecords}

InitBase ==
    /\ eb_pc = "idle"
    /\ eb_spans = <<>>
    /\ eb_i = 1
    /\ eb_log = <<>>
    /\ eb_ret = "none"

\* bool(x) of what export returned, as all() tests it; TruthyAlways is the bug
\* of a loop that never looks at the answers.
TruthyAlways(out) == TRUE
Truthy(out) == out = "true"

\* export_batch(spans): all(...) starts pulling from the generator.
ExportBatchCall(b) ==
    /\ eb_pc = "idle"
    /\ b \in Batches
    /\ eb_pc' = "iter"
    /\ eb_spans' = b
    /\ eb_i' = 1
    /\ eb_log' = <<>>
    /\ eb_ret' = "none"

\* all() pulls one item: the generator calls self.export(span).  A false answer
\* ends all() at once with False; an exception leaves export_batch.
ExportBatchStep(out) ==
    /\ eb_pc = "iter" /\ eb_i <= Len(eb_spans)
    /\ out \in {"true", "false", "raised"}
    /\ eb_log' = Append(eb_log, [arg |-> eb_spans[eb_i], at |-> eb_i, out |-> out])
    /\ IF out = "raised"
       THEN eb_pc' = "idle" /\ eb_ret' = "raised" /\ UNCHANGED eb_i
       ELSE IF Truthy(out)
       THEN eb_i' = eb_i + 1 /\ UNCHANGED <<eb_pc, eb_ret>>
       ELSE eb_pc' = "idle" /\ eb_ret' = "false" /\ UNCHANGED eb_i
    /\ UNCHANGED eb_spans

\* The generator is exhausted: all() gives True.
ExportBatchReturn ==
    /\ eb_pc = "iter" /\ eb_i > Len(eb_spans)
    /\ eb_pc' = "idle"
    /\ eb_ret' = "true"
    /\ UNCHANGED <<eb_spans, eb_i, eb_log>>

\* --------------------------------------------- Span, GenAITelemetry, trace_*
SpanThreads == {"a", "b"}

\* The errors application code raises: str(e), bool(e) (an exception class may
\* define __bool__ or __len__; the built-in ones are always true) and
\* type(e).__name__.
Errors == {[msg |-> "boom", truthy |-> TRUE, type |-> "ValueError"],
           [msg |-> "", truthy |-> TRUE, type |-> "ValueError"],
           [msg |-> "boom", truthy |-> FALSE, type |-> "ValueError"]}
NoError == [msg |-> "<none>", truthy |-> FALSE, type |-> "<none>"]
\* What exporter.export throws when it throws (SendBatch's "raised").
ExportError == [msg |-> "not JSON serializable", truthy |-> TRUE, type |-> "TypeError"]
\* The trace_* decorators.
Decorators == {"llm", "embedding", "retrieval", "tool", "chain", "agent"}
\* A key to_dict or send_span leaves out of the record.
Absent == "<absent>"

\* Nothing observed yet by the caller of the block or call under way.
\* dec: the decorator of the call; sent: the positions in `exported` of the
\* records the block or call sent.
NoObs == [kind |-> "none", span |-> 0, raised |-> NoError, got |-> NoError,
          dec |-> "none", sent |-> {}]

InitSpan ==
    /\ span_stack = [th \in SpanThreads |-> <<>>]
    /\ spans = <<>>
    /\ s_pc = [th \in SpanThreads |-> "run"]
    /\ s_span = [th \in SpanThreads |-> 0]
    /\ s_exc = [th \in SpanThreads |-> NoError]
    /\ exported = <<>>
    /\ s_n = 0
    /\ lastObs = [th \in SpanThreads |-> NoObs]

\* `self.span_stack[-1].span_id if self.span_stack else None`; LastCreated is
\* what a stack shared by the threads could give: the span created last.
LastCreated(stack) == Len(spans)
Top(stack) == IF stack = <<>> THEN 0 ELSE stack[Len(stack)]
\* self.span_stack.pop(); PopKept is a finally clause that forgets it.
PopKept(stack) == stack
Pop(stack) == SubSeq(stack, 1, Len(stack) - 1)

\* Span.__init__ as start_span calls it; phase and raised are not attributes of
\* the Span: they tell where its start_span block is and what its body raised.
NewSpan(th, parent) ==
    [thread |-> th, parent_span_id |-> parent, end_time |-> None, status |-> "OK",
     is_error |-> 0, error_message |-> None, phase |-> "open", raised |-> NoError]

\* Span.set_error(error)
set_error(sp, error) ==
    [sp EXCEPT !.status = "ERROR", !.is_error = 1, !.error_message = error.msg]

\* Span.finish(error), with the end time left unset on the error path: the bug an
\* early `return` in the error branch would be.
finishErrorUnfinished(sp, error) ==
    IF error # NoError /\ error.truthy
    THEN set_error(sp, error)
    ELSE [sp EXCEPT !.end_time = "set"]

\* Span.finish(error): end time and duration, then `if error: self.set_error(error)`.
finish(sp, error) ==
    LET done == [sp EXCEPT !.end_time = "set"] IN
    IF error # NoError /\ error.truthy THEN set_error(done, error) ELSE done

\* The optional-field filter of to_dict and of send_span's kwargs loop:
\* `value is not None and value != ""` (to_dict adds `and value != 0`).
Sparse(value) == IF value \in {None, ""} THEN Absent ELSE value

\* Span.to_dict(): the always-present keys, then the optional fields that pass
\* the filter.  finished: whether duration_ms came from finish() or is the
\* `or 0` default.
to_dict(id) ==
    [span_id |-> id, kind |-> "span", parent_span_id |-> spans[id].parent_span_id,
     status |-> spans[id].status, is_error |-> spans[id].is_error,
     error_message |-> Sparse(spans[id].error_message),
     finished |-> spans[id].end_time # None]

\* start_span, up to the yield: the parent is the top of the thread's stack, the
\* span is created and pushed, the body starts.
StartSpan(th) ==
    /\ s_pc[th] = "run"
    /\ s_n < MaxSpans
    /\ s_n' = s_n + 1
    /\ spans' = Append(spans, NewSpan(th, Top(span_stack[th])))
    /\ span_stack' = [span_stack EXCEPT ![th] = Append(@, Len(spans) + 1)]
    /\ lastObs' = [lastObs EXCEPT ![th] = NoObs]
    /\ UNCHANGED <<s_pc, s_span, s_exc, exported>>

\* start_span, the body returned: span.finish(), then the finally clause.
BodyReturns(th) ==
    /\ s_pc[th] = "run" /\ span_stack[th] # <<>>
    /\ LET id == Top(span_stack[th]) IN
        /\ spans' = [spans EXCEPT ![id] = [finish(@, NoError) EXCEPT !.phase = "exiting"]]
        /\ s_span' = [s_span EXCEPT ![th] = id]
    /\ s_exc' = [s_exc EXCEPT ![th] = NoError]
    /\ s_pc' = [s_pc EXCEPT ![th] = "finally"]
    /\ UNCHANGED <<span_stack, exported, s_n, lastObs>>

\* start_span, the body raised e: `except Exception as e: span.finish(error=e);
\* raise`, then the finally clause with e in flight.
BodyRaises(th, e) ==
    /\ s_pc[th] = "run" /\ span_stack[th] # <<>>
    /\ e \in Errors
    /\ LET id == Top(span_stack[th]) IN
        /\ spans' = [spans EXCEPT ![id] =
                       [finish(@, e) EXCEPT !.phase = "exiting", !.raised = e]]
        /\ s_span' = [s_span EXCEPT ![th] = id]
    /\ s_exc' = [s_exc EXCEPT ![th] = e]
    /\ s_pc' = [s_pc EXCEPT ![th] = "finally"]
    /\ UNCHANGED <<span_stack, exported, s_n, lastObs>>

\* start_span, `finally: self.span_stack.pop(); self.exporter.export(span.to_dict())`.
\* The export answers (`out` "true" or "false", ignored) and the exception in
\* flight, if any, goes on to the caller; or the export throws ("raised") and its
\* exception is the one that leaves the finally clause.
Finally(th, out) ==
    /\ s_pc[th] = "finally"
    /\ out \in {"true", "false", "raised"}
    /\ span_stack' = [span_stack EXCEPT ![th] = Pop(@)]
    /\ exported' = Append(exported, to_dict(s_span[th]))
    /\ spans' = [spans EXCEPT ![s_span[th]].phase = "closed"]
    /\ lastObs' = [lastObs EXCEPT ![th] =
                     [kind |-> "span", span |-> s_span[th], raised |-> s_exc[th],
                      got |-> IF out = "raised" THEN ExportError ELSE s_exc[th],
                      dec |-> "none", sent |-> {Len(exported) + 1}]]
    /\ s_pc' = [s_pc EXCEPT ![th] = "run"]
    /\ s_span' = [s_span EXCEPT ![th] = 0]
    /\ s_exc' = [s_exc EXCEPT ![th] = NoError]
    /\ UNCHANGED s_n

\* send_span(status=..., is_error=..., error_message=...): the record built from
\* the arguments, the optional ones kept when neither None nor "".
send_span(th, status, is_error, error_message, error_type) ==
    [span_id |-> 0 - (Len(exported) + 1), kind |-> "send",
     parent_span_id |-> Top(span_stack[th]),
     status |-> status, is_error |-> is_error,
     error_message |-> Sparse(error_message), error_type |-> Sparse(error_type),
     finished |-> TRUE]

\* The error_type argument of the except clause's send_span: trace_llm passes
\* type(e).__name__, the other decorators pass no error_type.
ErrorTypeArg(d, e) == IF d = "llm" THEN e.type ELSE None

\* A function wrapped by a trace_* decorator is called: the wrapper calls it.
TraceCall(th, d) ==
    /\ s_pc[th] = "run"
    /\ s_n < MaxSpans
    /\ d \in Decorators
    /\ s_n' = s_n + 1
    /\ s_pc' = [s_pc EXCEPT ![th] = "func"]
    /\ lastObs' = [lastObs EXCEPT ![th] = [NoObs EXCEPT !.dec = d]]
    /\ UNCHANGED <<span_stack, spans, s_span, s_exc, exported>>

\* wrapper: the function returned; send_span(...) of the OK span comes next.
TraceFuncReturns(th) ==
    /\ s_pc[th] = "func"
    /\ s_pc' = [s_pc EXCEPT ![th] = "send_ok"]
    /\ UNCHANGED <<span_stack, spans, s_span, s_exc, exported, s_n, lastObs>>

\* wrapper: the function raised e, caught by `except Exception as e`.
TraceFuncRaises(th, e) ==
    /\ s_pc[th] = "func"
    /\ e \in Errors
    /\ s_pc' = [s_pc EXCEPT ![th] = "send_err"]
    /\ s_exc' = [s_exc EXCEPT ![th] = e]
    /\ lastObs' = [lastObs EXCEPT ![th].raised = e]
    /\ UNCHANGED <<span_stack, spans, s_span, exported, s_n>>

\* wrapper, inside the try: send_span of the OK span.  The export answers and
\* the wrapper returns the result; or it throws, inside the try, so the except
\* clause catches the export's own exception.
TraceSendOk(th, out) ==
    /\ s_pc[th] = "send_ok"
    /\ out \in {"true", "false", "raised"}
    /\ exported' = Append(exported, send_span(th, "OK", 0, None, None))
    /\ IF out = "raised"
       THEN /\ s_pc' = [s_pc EXCEPT ![th] = "send_err"]
            /\ s_exc' = [s_exc EXCEPT ![th] = ExportError]
            /\ lastObs' = [lastObs EXCEPT ![th].sent = @ \cup {Len(exported) + 1}]
       ELSE /\ s_pc' = [s_pc EXCEPT ![th] = "run"]
            /\ lastObs' = [lastObs EXCEPT ![th].kind = "trace", ![th].got = NoError,
                                          ![th].sent = @ \cup {Len(exported) + 1}]
            /\ UNCHANGED s_exc
    /\ UNCHANGED <<span_stack, spans, s_span, s_n>>

\* wrapper, the except clause: send_span of the ERROR span with str(e), then
\* `raise`.  If the export throws here, its exception leaves the wrapper instead
\* of e.
TraceSendErr(th, out) ==
    /\ s_pc[th] = "send_err"
    /\ out \in {"true", "false", "raised"}
    /\ exported' = Append(exported,
                          send_span(th, "ERROR", 1, s_exc[th].msg,
                                    ErrorTypeArg(lastObs[th].dec, s_exc[th])))
    /\ lastObs' = [lastObs EXCEPT ![th].kind = "trace",
                     ![th].got = IF out = "raised" THEN ExportError ELSE s_exc[th],
                     ![th].sent = @ \cup {Len(exported) + 1}]
    /\ s_pc' = [s_pc EXCEPT ![th] = "run"]
    /\ s_exc' = [s_exc EXCEPT ![th] = NoError]
    /\ UNCHANGED <<span_stack, spans, s_span, s_n>>

\* ------------------------------------------------- GenAITelemetry.trace_id
\* threading.local() without the attribute `value`.
NoValue == "<no value>"
\* What a caller assigns to telemetry.trace_id, or passes to send_span as trace_id.
GivenIds == {None, "given"}

InitTrace ==
    /\ _trace_id = [th \in SpanThreads |-> NoValue]
    /\ uuids = 0
    /\ t_log = [th \in SpanThreads |-> <<>>]
    /\ t_calls = [th \in SpanThreads |-> [new_trace |-> 0, assigned |-> 0, returned |-> None, overwritten |-> FALSE]]

\* uuid.uuid4().hex: the n-th id produced, different from every other
uuid4(n) == ToString(n)

\* The getter of the trace_id property: the thread's value, a new uuid when
\* there is none (no attribute, or None).  GetterRegenerates makes a new one
\* on every access.
GetterRegenerates(th) == uuid4(uuids + 1)
Getter(th) == IF _trace_id[th] \in {NoValue, None} THEN uuid4(uuids + 1) ELSE _trace_id[th]

\* The span just created, with the calls made before it on its thread.
Created(th, by, id, keyword) ==
    [by |-> by, trace_id |-> id, keyword |-> keyword,
     new_trace |-> t_calls[th].new_trace, assigned |-> t_calls[th].assigned,
     returned |-> t_calls[th].returned, overwritten |-> t_calls[th].overwritten]

\* The calls made so far, on all threads.
CallsOn(th) == Len(t_log[th]) + t_calls[th].new_trace + t_calls[th].assigned
TraceCalls == CallsOn("a") + CallsOn("b")

\* start_span creates its Span with trace_id=self.trace_id.
TraceStartSpan(th) ==
    /\ TraceCalls < MaxCalls
    /\ LET id == Getter(th) IN
         /\ _trace_id' = [_trace_id EXCEPT ![th] = id]
         /\ uuids' = IF id = _trace_id[th] THEN uuids ELSE uuids + 1
         /\ t_log' = [t_log EXCEPT ![th] = Append(@, Created(th, "start_span", id, FALSE))]
    /\ UNCHANGED t_calls

\* send_span builds its record with "trace_id": self.trace_id, then copies
\* every keyword that is neither None nor "", a keyword trace_id included.
TraceSendSpan(th, kw) ==
    /\ TraceCalls < MaxCalls
    /\ kw \in GivenIds \cup {""}
    /\ LET id == Getter(th)
           keyword == kw \notin {None, ""} IN
         /\ _trace_id' = [_trace_id EXCEPT ![th] = id]
         /\ uuids' = IF id = _trace_id[th] THEN uuids ELSE uuids + 1
         /\ t_log' = [t_log EXCEPT ![th] =
                         Append(@, Created(th, "send_span", IF keyword THEN kw ELSE id, keyword))]
    /\ UNCHANGED t_calls

\* new_trace(): a new id, whatever the value was; returns it.
NewTrace(th) ==
    /\ TraceCalls < MaxCalls
    /\ _trace_id' = [_trace_id EXCEPT ![th] = uuid4(uuids + 1)]
    /\ uuids' = uuids + 1
    /\ t_calls' = [t_calls EXCEPT ![th].new_trace = @ + 1, ![th].returned = uuid4(uuids + 1),
                                   ![th].overwritten = FALSE]
    /\ UNCHANGED t_log

\* telemetry.trace_id = value (the setter of the property)
SetTraceId(th, value) ==
    /\ TraceCalls < MaxCalls
    /\ value \in GivenIds
    /\ _trace_id' = [_trace_id EXCEPT ![th] = value]
    /\ t_calls' = [t_calls EXCEPT ![th].assigned = @ + 1, ![th].overwritten = TRUE]
    /\ UNCHANGED <<uuids, t_log>>

\* --------------------------------------- export and the record it is given
\* The adapters: ElasticsearchExporter, and one that stands for the others.
AdapterKinds == {"elasticsearch", "splunk"}
\* The records a caller passes: any of these keys, each with a value.
RecordKeys == {"name", "timestamp", "@timestamp"}
SpanRecords == UNION {[ks -> {"set"}] : ks \in SUBSET RecordKeys}

InitRecord(lengths) ==
    /\ \E n \in lengths : r_exporters \in [1..n -> AdapterKinds]
    /\ r_span_data = NoDict
    /\ r_given = NoDict
    /\ r_pc = "idle"
    /\ r_i = 0
    /\ r_received = <<>>

\* The head of ElasticsearchExporter.export: `if "@timestamp" not in span_data:
\* span_data["@timestamp"] = span_data.get("timestamp", now)`, on the caller's
\* dict.
AfterExport(kind, rec) ==
    IF kind = "elasticsearch" /\ "@timestamp" \notin DOMAIN rec
    THEN update(rec, [k \in {"@timestamp"} |->
                        IF "timestamp" \in DOMAIN rec THEN rec["timestamp"] ELSE "now"])
    ELSE rec

\* MultiExporter.export(span_data) is called.
RecordExportCall(rec) ==
    /\ r_pc = "idle"
    /\ rec \in SpanRecords
    /\ r_span_data' = rec
    /\ r_given' = rec
    /\ r_pc' = "loop"
    /\ r_i' = 1
    /\ r_received' = <<>>
    /\ UNCHANGED r_exporters

\* The loop: exp.export(span_data) on the next member, with the same dict object.
RecordExportStep ==
    /\ r_pc = "loop" /\ r_i <= Len(r_exporters)
    /\ r_received' = Append(r_received, r_span_data)
    /\ r_span_data' = AfterExport(r_exporters[r_i], r_span_data)
    /\ r_i' = r_i + 1
    /\ UNCHANGED <<r_exporters, r_given, r_pc>>

\* The loop is over: export returns.
RecordExportReturn ==
    /\ r_pc = "loop" /\ r_i > Len(r_exporters)
    /\ r_pc' = "done"
    /\ UNCHANGED <<r_exporters, r_span_data, r_given, r_i, r_received>>

\* ------------------------------------------------------ PrometheusExporter
\* The records exported: is_error missing, 0 or 1; input_tokens a number, or
\* None, which `+=` rejects with a TypeError.
PromRecords == [is_error : {Absent, "0", "1"}, input_tokens : {"7", None}]
NoRecord == [is_error |-> Absent, input_tokens |-> Absent]

InitProm ==
    /\ _metrics = [llm_requests_total |-> 0, llm_errors_total |-> 0]
    /\ p_pc = [t \in Callers |-> "idle"]
    /\ p_span_data = [t \in Callers |-> NoRecord]
    /\ p_ret = [t \in Callers |-> "none"]
    /\ p_calls = [made |-> 0, errors |-> 0]

\* `if span_data.get("is_error"):`; is_error_present counts a record that has
\* the key, whatever its value.
is_error_present(rec) == rec.is_error # Absent
is_error_set(rec) == rec.is_error \notin {Absent, "0"}

\* export(span_data) is called and reaches `with self._lock:`.
PromExportCall(t, rec) ==
    /\ t \in Callers /\ p_pc[t] = "idle"
    /\ rec \in PromRecords
    /\ p_calls.made < MaxCalls
    /\ p_calls' = [made |-> p_calls.made + 1,
                   errors |-> p_calls.errors + IF rec.is_error = "1" THEN 1 ELSE 0]
    /\ p_pc' = [p_pc EXCEPT ![t] = "lock"]
    /\ p_span_data' = [p_span_data EXCEPT ![t] = rec]
    /\ p_ret' = [p_ret EXCEPT ![t] = "none"]
    /\ UNCHANGED _metrics

\* export, the block under the lock: the request counter, the error counter,
\* then the token counters, whose `+=` raises on a value that is not a number,
\* after the two counters were updated.
PromUpdate(t) ==
    /\ p_pc[t] = "lock"
    /\ _metrics' = [llm_requests_total |-> _metrics.llm_requests_total + 1,
                    llm_errors_total |-> _metrics.llm_errors_total +
                                            IF is_error_set(p_span_data[t]) THEN 1 ELSE 0]
    /\ IF p_span_data[t].input_tokens = None
       THEN /\ p_pc' = [p_pc EXCEPT ![t] = "idle"]
            /\ p_ret' = [p_ret EXCEPT ![t] = "raised"]
       ELSE /\ p_pc' = [p_pc EXCEPT ![t] = "push"]
            /\ UNCHANGED p_ret
    /\ UNCHANGED <<p_span_data, p_calls>>

\* _push_metrics: the counters are read under the lock and posted; the gateway
\* answers 200/202 ("true"), or answers otherwise or the post throws ("false").
PromPush(t, outcome) ==
    /\ p_pc[t] = "push"
    /\ outcome \in {"true", "false"}
    /\ p_pc' = [p_pc EXCEPT ![t] = "idle"]
    /\ p_ret' = [p_ret EXCEPT ![t] = outcome]
    /\ UNCHANGED <<_metrics, p_span_data, p_calls>>

\* ---------------------------------------------------------- specifications
\* The adapter alone, batch_size 1..MaxBatchSize, two callers, one flush thread.
Init ==
    /\ InitAdapter(1..MaxBatchSize, Callers, {"bg1"})
    /\ InitMulti({1})
    /\ InitSpan
    /\ InitBase
    /\ InitCloudWatch({FALSE})
    /\ InitElasticsearch({0})
    /\ InitSetup({{}})
    /\ InitFile({0}, {<<>>})
    /\ InitDict({})
    /\ InitTrace
    /\ InitRecord({0})
    /\ InitProm
    /\ InitFileLock
    /\ InitHandles

Next ==
    \/ \E t \in Callers : ExportCall(t)
          /\ UNCHANGED <<multiVars, spanVars, baseVars, cwVars, esVars, setupVars, fileVars, dictVars, traceVars, recVars, promVars, flockVars, handleVars>>
    \/ \E t \in Callers : ExportAppend(t)
          /\ UNCHANGED <<multiVars, spanVars, baseVars, cwVars, esVars, setupVars, fileVars, dictVars, traceVars, recVars, promVars, flockVars, handleVars>>
    \/ \E t \in Callers : FlushCall(t)
          /\ UNCHANGED <<multiVars, spanVars, baseVars, cwVars, esVars, setupVars, fileVars, dictVars, traceVars, recVars, promVars, flockVars, handleVars>>
    \/ \E th \in Threads : FlushAcquire(th)
          /\ UNCHANGED <<multiVars, spanVars, baseVars, cwVars, esVars, setupVars, fileVars, dictVars, traceVars, recVars, promVars, flockVars, handleVars>>
    \/ \E th \in Threads : FlushSwap(th)
          /\ UNCHANGED <<multiVars, spanVars, baseVars, cwVars, esVars, setupVars, fileVars, dictVars, traceVars, recVars, promVars, flockVars, handleVars>>
    \/ \E th \in Threads, raises \in BOOLEAN : SendBatch(th, raises)
          /\ UNCHANGED <<multiVars, spanVars, baseVars, cwVars, esVars, setupVars, fileVars, dictVars, traceVars, recVars, promVars, flockVars, handleVars>>
    \/ \E th \in Threads, outcome \in {"true", "false"} : Send(th, outcome)
          /\ UNCHANGED <<multiVars, spanVars, baseVars, cwVars, esVars, setupVars, fileVars, dictVars, traceVars, recVars, promVars, flockVars, handleVars>>
    \/ \E t \in Callers : StopCall(t)
          /\ UNCHANGED <<multiVars, spanVars, baseVars, cwVars, esVars, setupVars, fileVars, dictVars, traceVars, recVars, promVars, flockVars, handleVars>>
    \/ \E t \in Callers : StartCall(t)
          /\ UNCHANGED <<multiVars, spanVars, baseVars, cwVars, esVars, setupVars, fileVars, dictVars, traceVars, recVars, promVars, flockVars, handleVars>>
    \/ \E t \in Callers : StartSet(t)
          /\ UNCHANGED <<multiVars, spanVars, baseVars, cwVars, esVars, setupVars, fileVars, dictVars, traceVars, recVars, promVars, flockVars, handleVars>>
    \/ \E t \in Callers, b \in BgThreads : StartSpawn(t, b)
          /\ UNCHANGED <<multiVars, spanVars, baseVars, cwVars, esVars, setupVars, fileVars, dictVars, traceVars, recVars, promVars, flockVars, handleVars>>
    \/ \E b \in BgThreads : FlushLoop(b)
          /\ UNCHANGED <<multiVars, spanVars, baseVars, cwVars, esVars, setupVars, fileVars, dictVars, traceVars, recVars, promVars, flockVars, handleVars>>

Spec == Init /\ [][Next]_vars

\* The adapter called from one thread, so that its calls come one after the
\* other, with the flush thread start() creates.
LifeInit ==
    /\ InitAdapter(1..MaxBatchSize, {"t1"}, {"bg1"})
    /\ InitMulti({1})
    /\ InitSpan
    /\ InitBase
    /\ InitCloudWatch({FALSE})
    /\ InitElasticsearch({0})
    /\ InitSetup({{}})
    /\ InitFile({0}, {<<>>})
    /\ InitDict({})
    /\ InitTrace
    /\ InitRecord({0})
    /\ InitProm
    /\ InitFileLock
    /\ InitHandles

SpecLife == LifeInit /\ [][Next]_vars

\* A step of thread th inside a call or inside the flush loop (not the call of
\* export, flush, start or stop itself, which the program may never make).
Step(th) ==
    /\ \/ th \in BgThreads /\ FlushLoop(th)
       \/ th \in Callers /\ ExportAppend(th)
       \/ FlushAcquire(th)
       \/ FlushSwap(th)
       \/ \E raises \in BOOLEAN : SendBatch(th, raises)
       \/ \E outcome \in {"true", "false"} : Send(th, outcome)
       \/ th \in Callers /\ StartSet(th)
       \/ \E b \in BgThreads : th \in Callers /\ StartSpawn(th, b)
    /\ UNCHANGED <<multiVars, spanVars, baseVars, cwVars, esVars, setupVars, fileVars, dictVars, traceVars, recVars, promVars, flockVars, handleVars>>

\* The same under a scheduler that lets every thread run: a thread that can
\* take a step takes one, sleep(flush_interval) ends, urlopen returns or times
\* out, and a thread waiting for the lock gets it when it is free again and again.
SpecFair ==
    /\ LifeInit /\ [][Next]_vars
    /\ \A th \in Threads : WF_vars(Step(th))
    /\ \A th \in Threads : SF_vars(FlushAcquire(th) /\ UNCHANGED <<multiVars, spanVars, baseVars, cwVars, esVars, setupVars, fileVars, dictVars, traceVars, recVars, promVars, flockVars, handleVars>>)

\* The same, with two threads for start() to create, one per call that gets
\* as far as creating one.
ThreadsInit ==
    /\ InitAdapter(1..MaxBatchSize, {"t1"}, BgThreads)
    /\ InitMulti({1})
    /\ InitSpan
    /\ InitBase
    /\ InitCloudWatch({FALSE})
    /\ InitElasticsearch({0})
    /\ InitSetup({{}})
    /\ InitFile({0}, {<<>>})
    /\ InitDict({})
    /\ InitTrace
    /\ InitRecord({0})
    /\ InitProm
    /\ InitFileLock
    /\ InitHandles

SpecThreads == ThreadsInit /\ [][Next]_vars

\* The CloudWatch adapter: the common batching code over its own _send_batch,
\* with one caller and the flush thread, boto3 installed or not.
CloudWatchInit ==
    /\ InitAdapter(1..MaxBatchSize, {"t1"}, {"bg1"})
    /\ InitMulti({1})
    /\ InitSpan
    /\ InitBase
    /\ InitCloudWatch(BOOLEAN)
    /\ InitElasticsearch({0})
    /\ InitSetup({{}})
    /\ InitFile({0}, {<<>>})
    /\ InitDict({})
    /\ InitTrace
    /\ InitRecord({0})
    /\ InitProm
    /\ InitFileLock
    /\ InitHandles

CloudWatchNext ==
    \/ \E t \in Callers : ExportCall(t)
          /\ UNCHANGED <<multiVars, spanVars, baseVars, cwVars, esVars, setupVars, fileVars, dictVars, traceVars, recVars, promVars, flockVars, handleVars>>
    \/ \E t \in Callers : ExportAppend(t)
          /\ UNCHANGED <<multiVars, spanVars, baseVars, cwVars, esVars, setupVars, fileVars, dictVars, traceVars, recVars, promVars, flockVars, handleVars>>
    \/ \E t \in Callers : FlushCall(t)
          /\ UNCHANGED <<multiVars, spanVars, baseVars, cwVars, esVars, setupVars, fileVars, dictVars, traceVars, recVars, promVars, flockVars, handleVars>>
    \/ \E th \in Threads : FlushAcquire(th)
          /\ UNCHANGED <<multiVars, spanVars, baseVars, cwVars, esVars, setupVars, fileVars, dictVars, traceVars, recVars, promVars, flockVars, handleVars>>
    \/ \E th \in Threads : FlushSwap(th)
          /\ UNCHANGED <<multiVars, spanVars, baseVars, cwVars, esVars, setupVars, fileVars, dictVars, traceVars, recVars, promVars, flockVars, handleVars>>
    \/ \E th \in Threads, raises \in BOOLEAN : CwSendBatch(th, raises)
          /\ UNCHANGED <<multiVars, spanVars, baseVars, esVars, setupVars, fileVars, dictVars, traceVars, recVars, promVars, flockVars, handleVars>>
    \/ \E th \in Threads, first \in BOOLEAN, outcome \in {"ok", "notfound", "fail"} :
          CwPut(th, first, outcome)
          /\ UNCHANGED <<multiVars, spanVars, baseVars, esVars, setupVars, fileVars, dictVars, traceVars, recVars, promVars, flockVars, handleVars>>
    \/ \E th \in Threads : CwStore(th)
          /\ UNCHANGED <<multiVars, spanVars, baseVars, esVars, setupVars, fileVars, dictVars, traceVars, recVars, promVars, flockVars, handleVars>>
    \/ \E t \in Callers : StopCall(t)
          /\ UNCHANGED <<multiVars, spanVars, baseVars, cwVars, esVars, setupVars, fileVars, dictVars, traceVars, recVars, promVars, flockVars, handleVars>>
    \/ \E t \in Callers : StartCall(t)
          /\ UNCHANGED <<multiVars, spanVars, baseVars, cwVars, esVars, setupVars, fileVars, dictVars, traceVars, recVars, promVars, flockVars, handleVars>>
    \/ \E t \in Callers : StartSet(t)
          /\ UNCHANGED <<multiVars, spanVars, baseVars, cwVars, esVars, setupVars, fileVars, dictVars, traceVars, recVars, promVars, flockVars, handleVars>>
    \/ \E t \in Callers, b \in BgThreads : StartSpawn(t, b)
          /\ UNCHANGED <<multiVars, spanVars, baseVars, cwVars, esVars, setupVars, fileVars, dictVars, traceVars, recVars, promVars, flockVars, handleVars>>
    \/ \E b \in BgThreads : FlushLoop(b)
          /\ UNCHANGED <<multiVars, spanVars, baseVars, cwVars, esVars, setupVars, fileVars, dictVars, traceVars, recVars, promVars, flockVars, handleVars>>

SpecCloudWatch == CloudWatchInit /\ [][CloudWatchNext]_vars

\* Host selection of the Elasticsearch adapter alone, calls one after the other.
ElasticsearchInit ==
    /\ InitAdapter({1}, {}, {})
    /\ InitMulti({1})
    /\ InitSpan
    /\ InitBase
    /\ InitCloudWatch({FALSE})
    /\ InitElasticsearch(0..MaxHosts)
    /\ InitSetup({{}})
    /\ InitFile({0}, {<<>>})
    /\ InitDict({})
    /\ InitTrace
    /\ InitRecord({0})
    /\ InitProm
    /\ InitFileLock
    /\ InitHandles

ElasticsearchNext ==
    GetHost /\ UNCHANGED <<adapterVars, multiVars, spanVars, baseVars, cwVars, setupVars, fileVars, dictVars, traceVars, recVars, promVars, flockVars, handleVars>>

SpecElasticsearch == ElasticsearchInit /\ [][ElasticsearchNext]_vars

\* setup_telemetry alone, called once, with or without an earlier handle.
SetupInit ==
    /\ InitAdapter({1}, {}, {})
    /\ InitMulti({1})
    /\ InitSpan
    /\ InitBase
    /\ InitCloudWatch({FALSE})
    /\ InitElasticsearch({0})
    /\ InitSetup({{}, {PriorInstance}})
    /\ InitFile({0}, {<<>>})
    /\ InitDict({})
    /\ InitTrace
    /\ InitRecord({0})
    /\ InitProm
    /\ InitFileLock
    /\ InitHandles

SetupNext ==
    \/ \E arg \in SetupArgs : SetupCall(arg)
          /\ UNCHANGED <<adapterVars, multiVars, spanVars, baseVars, cwVars, esVars, fileVars, dictVars, traceVars, recVars, promVars, flockVars, handleVars>>
    \/ SetupCreate
          /\ UNCHANGED <<adapterVars, multiVars, spanVars, baseVars, cwVars, esVars, fileVars, dictVars, traceVars, recVars, promVars, flockVars, handleVars>>
    \/ SetupFinish
          /\ UNCHANGED <<adapterVars, multiVars, spanVars, baseVars, cwVars, esVars, fileVars, dictVars, traceVars, recVars, promVars, flockVars, handleVars>>
    \/ TelemetryExport
          /\ UNCHANGED <<adapterVars, multiVars, spanVars, baseVars, cwVars, esVars, fileVars, dictVars, traceVars, recVars, promVars, flockVars, handleVars>>

SpecSetup == SetupInit /\ [][SetupNext]_vars

\* The file exporter alone, its export calls one after the other under the lock.
FileInit ==
    /\ InitAdapter({1}, {}, {})
    /\ InitMulti({1})
    /\ InitSpan
    /\ InitBase
    /\ InitCloudWatch({FALSE})
    /\ InitElasticsearch({0})
    /\ InitSetup({{}})
    /\ InitFile(RotateSizes, {<<>>, <<OldLine>>})
    /\ InitDict({})
    /\ InitTrace
    /\ InitRecord({0})
    /\ InitProm
    /\ InitFileLock
    /\ InitHandles

FileNext ==
    \E rec \in FileRecords, io_ok \in BOOLEAN : FileExport(rec, io_ok)
        /\ UNCHANGED <<adapterVars, multiVars, spanVars, baseVars, cwVars, esVars, setupVars, dictVars, traceVars, recVars, promVars, flockVars, handleVars>>

SpecFile == FileInit /\ [][FileNext]_vars

\* FileExporter.export called from two threads, on a file that does not exist yet.
FileLockInit ==
    /\ InitAdapter({1}, {}, {})
    /\ InitMulti({1})
    /\ InitSpan
    /\ InitBase
    /\ InitCloudWatch({FALSE})
    /\ InitElasticsearch({0})
    /\ InitSetup({{}})
    /\ InitFile(RotateSizes, {<<>>})
    /\ InitDict({})
    /\ InitTrace
    /\ InitRecord({0})
    /\ InitProm
    /\ InitFileLock
    /\ InitHandles

FileLockNext ==
    \/ \E t \in Callers, rec \in FileRecords : FileLockCall(t, rec)
          /\ UNCHANGED <<adapterVars, multiVars, spanVars, baseVars, cwVars, esVars, setupVars, dictVars, traceVars, recVars, promVars, handleVars>>
    \/ \E t \in Callers : FileLockAcquire(t)
          /\ UNCHANGED <<adapterVars, multiVars, spanVars, baseVars, cwVars, esVars, setupVars, dictVars, traceVars, recVars, promVars, handleVars>>
    \/ \E t \in Callers : FileLockCheck(t)
          /\ UNCHANGED <<adapterVars, multiVars, spanVars, baseVars, cwVars, esVars, setupVars, dictVars, traceVars, recVars, promVars, handleVars>>
    \/ \E t \in Callers, io_ok \in BOOLEAN : FileLockWrite(t, io_ok)
          /\ UNCHANGED <<adapterVars, multiVars, spanVars, baseVars, cwVars, esVars, setupVars, dictVars, traceVars, recVars, promVars, handleVars>>
    \/ \E t \in Callers : FileLockClose(t)
          /\ UNCHANGED <<adapterVars, multiVars, spanVars, baseVars, cwVars, esVars, setupVars, dictVars, traceVars, recVars, promVars, handleVars>>

SpecFileLock == FileLockInit /\ [][FileLockNext]_vars

\* setup_telemetry called several times in one process.
ResetupInit ==
    /\ InitAdapter({1}, {}, {})
    /\ InitMulti({1})
    /\ InitSpan
    /\ InitBase
    /\ InitCloudWatch({FALSE})
    /\ InitElasticsearch({0})
    /\ InitSetup({{}})
    /\ InitFile({0}, {<<>>})
    /\ InitDict({})
    /\ InitTrace
    /\ InitRecord({0})
    /\ InitProm
    /\ InitFileLock
    /\ InitHandles

ResetupNext ==
    \/ \E valid \in BOOLEAN : ResetupCreate(valid)
          /\ UNCHANGED <<adapterVars, multiVars, spanVars, baseVars, cwVars, esVars, setupVars, fileVars, dictVars, traceVars, recVars, promVars, flockVars>>
    \/ ResetupStart
          /\ UNCHANGED <<adapterVars, multiVars, spanVars, baseVars, cwVars, esVars, setupVars, fileVars, dictVars, traceVars, recVars, promVars, flockVars>>
    \/ ResetupAssign
          /\ UNCHANGED <<adapterVars, multiVars, spanVars, baseVars, cwVars, esVars, setupVars, fileVars, dictVars, traceVars, recVars, promVars, flockVars>>
    \/ get_telemetry
          /\ UNCHANGED <<adapterVars, multiVars, spanVars, baseVars, cwVars, esVars, setupVars, fileVars, dictVars, traceVars, recVars, promVars, flockVars>>
    \/ \E i \in 1..MaxMembers : HandleExport(i)
          /\ UNCHANGED <<adapterVars, multiVars, spanVars, baseVars, cwVars, esVars, setupVars, fileVars, dictVars, traceVars, recVars, promVars, flockVars>>
    \/ \E i \in 1..MaxMembers : HandleFlushLoop(i)
          /\ UNCHANGED <<adapterVars, multiVars, spanVars, baseVars, cwVars, esVars, setupVars, fileVars, dictVars, traceVars, recVars, promVars, flockVars>>
    \/ \E i \in 1..MaxMembers : HandleStop(i)
          /\ UNCHANGED <<adapterVars, multiVars, spanVars, baseVars, cwVars, esVars, setupVars, fileVars, dictVars, traceVars, recVars, promVars, flockVars>>

SpecResetup == ResetupInit /\ [][ResetupNext]_vars

\* One Span object and the records to_dict and send_span build.
DictInit ==
    /\ InitAdapter({1}, {}, {})
    /\ InitMulti({1})
    /\ InitSpan
    /\ InitBase
    /\ InitCloudWatch({FALSE})
    /\ InitElasticsearch({0})
    /\ InitSetup({{}})
    /\ InitFile({0}, {<<>>})
    /\ InitDict(SpanTypes)
    /\ InitTrace
    /\ InitRecord({0})
    /\ InitProm
    /\ InitFileLock
    /\ InitHandles

DictNext ==
    \/ \E key \in AttrKeys, value \in AttrValues : SetAttribute(key, value)
          /\ UNCHANGED <<adapterVars, multiVars, spanVars, baseVars, cwVars, esVars, setupVars, fileVars, traceVars, recVars, promVars, flockVars, handleVars>>
    \/ \E duration \in {"0", "7"} : SpanFinish(duration)
          /\ UNCHANGED <<adapterVars, multiVars, spanVars, baseVars, cwVars, esVars, setupVars, fileVars, traceVars, recVars, promVars, flockVars, handleVars>>
    \/ ToDict
          /\ UNCHANGED <<adapterVars, multiVars, spanVars, baseVars, cwVars, esVars, setupVars, fileVars, traceVars, recVars, promVars, flockVars, handleVars>>
    \/ \E ty \in SpanTypes, duration \in {None, "0", "7"}, kw \in Keywords : SendSpan(ty, duration, kw)
          /\ UNCHANGED <<adapterVars, multiVars, spanVars, baseVars, cwVars, esVars, setupVars, fileVars, traceVars, recVars, promVars, flockVars, handleVars>>

SpecDict == DictInit /\ [][DictNext]_vars

\* The per-thread trace id of the facade.
TraceInit ==
    /\ InitAdapter({1}, {}, {})
    /\ InitMulti({1})
    /\ InitSpan
    /\ InitBase
    /\ InitCloudWatch({FALSE})
    /\ InitElasticsearch({0})
    /\ InitSetup({{}})
    /\ InitFile({0}, {<<>>})
    /\ InitDict({})
    /\ InitTrace
    /\ InitRecord({0})
    /\ InitProm
    /\ InitFileLock
    /\ InitHandles

TraceNext ==
    \/ \E th \in SpanThreads : TraceStartSpan(th)
          /\ UNCHANGED <<adapterVars, multiVars, spanVars, baseVars, cwVars, esVars, setupVars, fileVars, dictVars, recVars, promVars, flockVars, handleVars>>
    \/ \E th \in SpanThreads, kw \in GivenIds \cup {""} : TraceSendSpan(th, kw)
          /\ UNCHANGED <<adapterVars, multiVars, spanVars, baseVars, cwVars, esVars, setupVars, fileVars, dictVars, recVars, promVars, flockVars, handleVars>>
    \/ \E th \in SpanThreads : NewTrace(th)
          /\ UNCHANGED <<adapterVars, multiVars, spanVars, baseVars, cwVars, esVars, setupVars, fileVars, dictVars, recVars, promVars, flockVars, handleVars>>
    \/ \E th \in SpanThreads, value \in GivenIds : SetTraceId(th, value)
          /\ UNCHANGED <<adapterVars, multiVars, spanVars, baseVars, cwVars, esVars, setupVars, fileVars, dictVars, recVars, promVars, flockVars, handleVars>>

SpecTrace == TraceInit /\ [][TraceNext]_vars

\* A PrometheusExporter called from two threads.
PromInit ==
    /\ InitAdapter({1}, {}, {})
    /\ InitMulti({1})
    /\ InitSpan
    /\ InitBase
    /\ InitCloudWatch({FALSE})
    /\ InitElasticsearch({0})
    /\ InitSetup({{}})
    /\ InitFile({0}, {<<>>})
    /\ InitDict({})
    /\ InitTrace
    /\ InitRecord({0})
    /\ InitProm
    /\ InitFileLock
    /\ InitHandles

PromNext ==
    \/ \E t \in Callers, rec \in PromRecords : PromExportCall(t, rec)
          /\ UNCHANGED <<adapterVars, multiVars, spanVars, baseVars, cwVars, esVars, setupVars, fileVars, dictVars, traceVars, recVars, flockVars, handleVars>>
    \/ \E t \in Callers : PromUpdate(t)
          /\ UNCHANGED <<adapterVars, multiVars, spanVars, baseVars, cwVars, esVars, setupVars, fileVars, dictVars, traceVars, recVars, flockVars, handleVars>>
    \/ \E t \in Callers, outcome \in {"true", "false"} : PromPush(t, outcome)
          /\ UNCHANGED <<adapterVars, multiVars, spanVars, baseVars, cwVars, esVars, setupVars, fileVars, dictVars, traceVars, recVars, flockVars, handleVars>>

SpecProm == PromInit /\ [][PromNext]_vars

\* A fan-out over 1..MaxMembers adapters and the dict it hands to each.
RecordInit ==
    /\ InitAdapter({1}, {}, {})
    /\ InitMulti({1})
    /\ InitSpan
    /\ InitBase
    /\ InitCloudWatch({FALSE})
    /\ InitElasticsearch({0})
    /\ InitSetup({{}})
    /\ InitFile({0}, {<<>>})
    /\ InitDict({})
    /\ InitTrace
    /\ InitRecord(1..MaxMembers)
    /\ InitProm
    /\ InitFileLock
    /\ InitHandles

RecordNext ==
    \/ \E rec \in SpanRecords : RecordExportCall(rec)
          /\ UNCHANGED <<adapterVars, multiVars, spanVars, baseVars, cwVars, esVars, setupVars, fileVars, dictVars, traceVars, promVars, flockVars, handleVars>>
    \/ RecordExportStep
          /\ UNCHANGED <<adapterVars, multiVars, spanVars, baseVars, cwVars, esVars, setupVars, fileVars, dictVars, traceVars, promVars, flockVars, handleVars>>
    \/ RecordExportReturn
          /\ UNCHANGED <<adapterVars, multiVars, spanVars, baseVars, cwVars, esVars, setupVars, fileVars, dictVars, traceVars, promVars, flockVars, handleVars>>

SpecRecord == RecordInit /\ [][RecordNext]_vars

\* The fan-out combinator alone, over 1..MaxMembers members.
MultiInit ==
    /\ InitAdapter({1}, {}, {})
    /\ InitMulti(1..MaxMembers)
    /\ InitSpan
    /\ InitBase
    /\ InitCloudWatch({FALSE})
    /\ InitElasticsearch({0})
    /\ InitSetup({{}})
    /\ InitFile({0}, {<<>>})
    /\ InitDict({})
    /\ InitTrace
    /\ InitRecord({0})
    /\ InitProm
    /\ InitFileLock
    /\ InitHandles

MultiNext ==
    \/ \E kind \in BroadcastOps \cup {"export"}, arg \in SpanArgs \cup {"none"} : MultiCall(kind, arg)
          /\ UNCHANGED <<adapterVars, spanVars, baseVars, cwVars, esVars, setupVars, fileVars, dictVars, traceVars, recVars, promVars, flockVars, handleVars>>
    \/ \E out \in {"true", "false", "raised"} : MultiExportStep(out)
          /\ UNCHANGED <<adapterVars, spanVars, baseVars, cwVars, esVars, setupVars, fileVars, dictVars, traceVars, recVars, promVars, flockVars, handleVars>>
    \/ MultiExportReturn
          /\ UNCHANGED <<adapterVars, spanVars, baseVars, cwVars, esVars, setupVars, fileVars, dictVars, traceVars, recVars, promVars, flockVars, handleVars>>
    \/ \E out \in {"void", "raised"} : MultiBroadcastStep(out)
          /\ UNCHANGED <<adapterVars, spanVars, baseVars, cwVars, esVars, setupVars, fileVars, dictVars, traceVars, recVars, promVars, flockVars, handleVars>>
    \/ MultiBroadcastReturn
          /\ UNCHANGED <<adapterVars, spanVars, baseVars, cwVars, esVars, setupVars, fileVars, dictVars, traceVars, recVars, promVars, flockVars, handleVars>>

SpecMulti == MultiInit /\ [][MultiNext]_vars

\* BaseExporter.export_batch alone, over an export that answers or throws.
BaseInit ==
    /\ InitAdapter({1}, {}, {})
    /\ InitMulti({1})
    /\ InitSpan
    /\ InitBase
    /\ InitCloudWatch({FALSE})
    /\ InitElasticsearch({0})
    /\ InitSetup({{}})
    /\ InitFile({0}, {<<>>})
    /\ InitDict({})
    /\ InitTrace
    /\ InitRecord({0})
    /\ InitProm
    /\ InitFileLock
    /\ InitHandles

BaseNext ==
    \/ \E b \in Batches : ExportBatchCall(b)
          /\ UNCHANGED <<adapterVars, multiVars, spanVars, cwVars, esVars, setupVars, fileVars, dictVars, traceVars, recVars, promVars, flockVars, handleVars>>
    \/ \E out \in {"true", "false", "raised"} : ExportBatchStep(out)
          /\ UNCHANGED <<adapterVars, multiVars, spanVars, cwVars, esVars, setupVars, fileVars, dictVars, traceVars, recVars, promVars, flockVars, handleVars>>
    \/ ExportBatchReturn
          /\ UNCHANGED <<adapterVars, multiVars, spanVars, cwVars, esVars, setupVars, fileVars, dictVars, traceVars, recVars, promVars, flockVars, handleVars>>

SpecBase == BaseInit /\ [][BaseNext]_vars

\* The facade alone.
SpanInit ==
    /\ InitAdapter({1}, {}, {})
    /\ InitMulti({1})
    /\ InitSpan
    /\ InitBase
    /\ InitCloudWatch({FALSE})
    /\ InitElasticsearch({0})
    /\ InitSetup({{}})
    /\ InitFile({0}, {<<>>})
    /\ InitDict({})
    /\ InitTrace
    /\ InitRecord({0})
    /\ InitProm
    /\ InitFileLock
    /\ InitHandles

SpanNext ==
    \/ \E th \in SpanThreads : StartSpan(th)
          /\ UNCHANGED <<adapterVars, multiVars, baseVars, cwVars, esVars, setupVars, fileVars, dictVars, traceVars, recVars, promVars, flockVars, handleVars>>
    \/ \E th \in SpanThreads : BodyReturns(th)
          /\ UNCHANGED <<adapterVars, multiVars, baseVars, cwVars, esVars, setupVars, fileVars, dictVars, traceVars, recVars, promVars, flockVars, handleVars>>
    \/ \E th \in SpanThreads, e \in Errors : BodyRaises(th, e)
          /\ UNCHANGED <<adapterVars, multiVars, baseVars, cwVars, esVars, setupVars, fileVars, dictVars, traceVars, recVars, promVars, flockVars, handleVars>>
    \/ \E th \in SpanThreads, out \in {"true", "false", "raised"} : Finally(th, out)
          /\ UNCHANGED <<adapterVars, multiVars, baseVars, cwVars, esVars, setupVars, fileVars, dictVars, traceVars, recVars, promVars, flockVars, handleVars>>
    \/ \E th \in SpanThreads, d \in Decorators : TraceCall(th, d)
          /\ UNCHANGED <<adapterVars, multiVars, baseVars, cwVars, esVars, setupVars, fileVars, dictVars, traceVars, recVars, promVars, flockVars, handleVars>>
    \/ \E th \in SpanThreads : TraceFuncReturns(th)
          /\ UNCHANGED <<adapterVars, multiVars, baseVars, cwVars, esVars, setupVars, fileVars, dictVars, traceVars, recVars, promVars, flockVars, handleVars>>
    \/ \E th \in SpanThreads, e \in Errors : TraceFuncRaises(th, e)
          /\ UNCHANGED <<adapterVars, multiVars, baseVars, cwVars, esVars, setupVars, fileVars, dictVars, traceVars, recVars, promVars, flockVars, handleVars>>
    \/ \E th \in SpanThreads, out \in {"true", "false", "raised"} : TraceSendOk(th, out)
          /\ UNCHANGED <<adapterVars, multiVars, baseVars, cwVars, esVars, setupVars, fileVars, dictVars, traceVars, recVars, promVars, flockVars, handleVars>>
    \/ \E th \in SpanThreads, out \in {"true", "false", "raised"} : TraceSendErr(th, out)
          /\ UNCHANGED <<adapterVars, multiVars, baseVars, cwVars, esVars, setupVars, fileVars, dictVars, traceVars, recVars, promVars, flockVars, handleVars>>

SpecSpan == SpanInit /\ [][SpanNext]_vars

\* start_span whole: the parent from the thread's stack and the trace id from
\* the thread's local value.
StartSpanTraced(th) == StartSpan(th) /\ TraceStartSpan(th)

\* The thread-local state of the facade, trace id and span stack together, on
\* two threads that open and leave start_span blocks and start new traces.
LocalNext ==
    \/ \E th \in SpanThreads : StartSpanTraced(th)
          /\ UNCHANGED <<adapterVars, multiVars, baseVars, cwVars, esVars, setupVars, fileVars, dictVars, recVars, promVars, flockVars, handleVars>>
    \/ \E th \in SpanThreads : BodyReturns(th)
          /\ UNCHANGED <<adapterVars, multiVars, baseVars, cwVars, esVars, setupVars, fileVars, dictVars, traceVars, recVars, promVars, flockVars, handleVars>>
    \/ \E th \in SpanThreads, e \in Errors : BodyRaises(th, e)
          /\ UNCHANGED <<adapterVars, multiVars, baseVars, cwVars, esVars, setupVars, fileVars, dictVars, traceVars, recVars, promVars, flockVars, handleVars>>
    \/ \E th \in SpanThreads, out \in {"true", "false", "raised"} : Finally(th, out)
          /\ UNCHANGED <<adapterVars, multiVars, baseVars, cwVars, esVars, setupVars, fileVars, dictVars, traceVars, recVars, promVars, flockVars, handleVars>>
    \/ \E th \in SpanThreads : NewTrace(th)
          /\ UNCHANGED <<adapterVars, multiVars, spanVars, baseVars, cwVars, esVars, setupVars, fileVars, dictVars, recVars, promVars, flockVars, handleVars>>

SpecLocal == SpanInit /\ [][LocalNext]_vars

\* ------------------------------------------------------------ claims, Spec
AllIdle == \A t \in Callers : pc[t] = "idle"
Called == nextId - 1
FirstRecords(n) == [i \in 1..n |-> i]

\* C1: with batch_size B > 1, from an empty queue, the export calls coming one
\* after the other and nothing else flushing: no batch is handed to a send while
\* fewer than B export calls were made, and once the B-th export call has returned
\* exactly one batch was handed to a send, it holds exactly those B records, and
\* the pending queue is empty.
C1_SizeTriggeredBatch ==
    (batch_size > 1 /\ hist.plain) =>
        /\ Called < batch_size => sends = {}
        /\ (Called = batch_size /\ AllIdle) =>
              /\ Cardinality(sends) = 1
              /\ \A s \in sends : s.batch = FirstRecords(batch_size)
              /\ _batch = <<>>

C1_Witness ==
    /\ batch_size > 1 /\ hist.plain
    /\ Called = batch_size /\ AllIdle
    /\ \E s \in sends : s.st = "true"

\* C2: under every interleaving of export calls from several threads, flushes of
\* the background thread, flush() and stop(), no record is in more than one batch
\* handed to a send (nor twice in one), and a record captured by a flush is no
\* longer in the pending queue.
C2_NoDuplicateSend ==
    /\ \A id \in 1..MaxRecords : hist.handed[id] <= 1
    /\ \A s \in sends : Ids(s.batch) \cap Ids(_batch) = {}
    /\ \A th \in Threads : pc[th] \in {"send_batch", "send"} =>
                              Ids(batch[th]) \cap Ids(_batch) = {}

C2_Witness ==
    /\ batch_size > 1
    /\ pc["bg1"] = "send"
    /\ \E t \in Callers : pc[t] = "send" /\ op[t] = "export"
    /\ \E t \in Callers : op[t] = "stop"

\* C3: when stop() returns on a batching adapter and no export call ran
\* concurrently with it, the pending queue is empty and every record enqueued
\* before the call is in a batch whose send attempt has completed.
StopReturns(t) == op[t] = "stop" /\ pc'[t] = "idle" /\ ret'[t] = "void"

C3_StopLosesNothing ==
    [][\A t \in Callers :
          (batch_size > 1 /\ StopReturns(t) /\ ~hist.stopDirty[t]) =>
              /\ _batch' = <<>>
              /\ \A id \in 1..Called :
                    \E s \in sends' : id \in Ids(s.batch) /\ s.st # "flight"]_vars

\* C4: an export call whose delivery fails (the send fails, or the record cannot
\* be serialized) returns false and raises nothing.
ExportLeaves(t) == op[t] = "export" /\ pc[t] # "idle" /\ pc'[t] = "idle"
DeliveryFailed == \E s \in sends' \ sends : s.st \in {"false", "raised"}

C4_DeliveryFailureIsFalse ==
    [][\A t \in Callers : (ExportLeaves(t) /\ DeliveryFailed) => ret'[t] = "false"]_vars

\* C12: flush, on a non-empty queue, takes the whole queue, in its order,
\* whatever its length, leaves the queue empty, and hands what it took as one
\* batch to one send; on an empty queue it makes no send and changes neither the
\* queue nor the sends.
C12_FlushDrainsAll ==
    [][\A th \in Threads :
          /\ FlushSwap(th) =>
                IF _batch = <<>>
                THEN pc'[th] # "send_batch" /\ UNCHANGED <<_batch, sends, batch>>
                ELSE /\ _batch' = <<>>
                     /\ batch'[th] = _batch
                     /\ pc'[th] = "send_batch"
          /\ (pc[th] = "send_batch" /\ pc'[th] # "send_batch" /\ batch[th] # <<>>) =>
                /\ \E s \in sends' : s.batch = batch[th] /\ sends' = sends \cup {s}
                /\ \A id \in 1..MaxRecords :
                      hist'.handed[id] = hist.handed[id] + (IF id \in Ids(batch[th]) THEN 1 ELSE 0)]_vars

C12_Witness ==
    \E t \in Callers :
        /\ op[t] = "flush" /\ pc[t] = "send"
        /\ batch[t] # <<>> /\ Len(batch[t]) < batch_size
        /\ \E s \in sends : s.batch = batch[t]
        /\ _batch = <<>>

\* C13: with batch_size <= 1, an export call makes exactly one send, of a batch
\* holding exactly the exported record, never puts the record in the pending
\* queue, and returns what that send gave (true or false).
C13_UnbatchedSendsOne ==
    [][\A t \in Callers :
          (batch_size <= 1 /\ op[t] = "export") =>
              /\ _batch = <<>> /\ _batch' = <<>>
              /\ Len(batch[t]) = 1
              /\ ExportLeaves(t) =>
                    /\ hist'.handed[batch[t][1]] = 1
                    /\ \E s \in sends' :
                          /\ s.batch = batch[t]
                          /\ s.st \in {"true", "false"}
                          /\ ret'[t] = s.st]_vars

\* ------------------------------------------------------- claims, SpecLife
\* A send is under way on thread th: _send_batch was entered, _send not left.
Sending(th) == pc[th] \in {"send_batch", "send"}

\* C25: the queue lock is not held while a send is in progress.  A thread that
\* is sending does not own the lock, and the lock is owned only by a thread
\* inside export's or flush's `with self._lock:` block, which holds no send; so
\* during a send another thread's export finds the lock free or briefly taken
\* by an append or a swap, never taken for the length of the send.
C25_NoLockDuringSend ==
    /\ \A th \in Threads : Sending(th) => _lock # th
    /\ _lock # NoThread => pc[_lock] \in {"e_crit", "f_crit"}

\* The flush thread's send is in flight, and meanwhile t1's export enqueued a
\* record and returned.
C25_Witness ==
    /\ pc["bg1"] = "send" /\ _lock = NoThread
    /\ pc["t1"] = "idle" /\ ret["t1"] = "true" /\ hist.last = "export"
    /\ _batch # <<>>
    /\ \A i \in 1..Len(_batch) : \A k \in 1..Len(batch["bg1"]) : _batch[i] > batch["bg1"][k]

\* Record id is in the queue.
Enqueued(id) == \E i \in 1..Len(_batch) : _batch[i] = id

\* The sends that failed: _send returned False.
Failed == {s \in sends : s.st = "false"}

C11_StartStopIdempotent ==
    /\ [][\A t \in Callers :
            (hist.last = "start" /\ StartCall(t)) =>
                /\ _running
                /\ UNCHANGED <<_running, _flush_thread, pc, _batch, sends>>]_vars
    /\ [](\A t \in Callers :
            (op[t] = "stop" /\ hist.last = "stop") =>
                /\ ~_running /\ _batch = <<>>
                /\ pc[t] \in {"f_lock", "f_crit"})
    /\ [](\A t \in Callers :
            (pc[t] = "idle" /\ hist.last = "stop" /\ "stop" \in hist.again) =>
                ~_running /\ _batch = <<>>)

C11_Witness ==
    /\ batch_size > 1
    /\ hist.again = {"start", "stop"}
    /\ hist.last = "stop" /\ pc["t1"] = "idle"
    /\ sends # {}

\* Thread b is in a flush the loop called: waiting for the lock, swapping, or sending.
BgFlushing(b) == pc[b] \in {"f_lock", "f_crit", "send_batch", "send"}

\* The single caller's last call was stop(), and it has returned.
StopReturned == pc["t1"] = "idle" /\ hist.last = "stop"

\* C26: stop() on a running adapter halts the background thread before its own
\* final flush, and after stop() returned the background thread flushes and
\* sends no more: while stop() is in its flush, and once stop() has returned,
\* the thread is in no flush or send (it has left its loop or is about to).
C26_StopHaltsBackground ==
    \A b \in BgThreads :
        /\ (InStop("t1") /\ pc["t1"] \in {"f_crit", "send_batch", "send"}) => ~BgFlushing(b)
        /\ StopReturned => ~BgFlushing(b)

\* ------------------------------------------------------- claims, SpecFair
\* C28: while the adapter is running, every enqueued record is eventually
\* handed to a send attempt, even if the queue never reaches batch_size and
\* whatever earlier flushes did: a record in the queue of a running adapter is
\* later in a batch given to _send_batch, unless stop() is called first.
C28_EventuallySent ==
    \A id \in 1..MaxRecords :
        (Enqueued(id) /\ _running /\ _flush_thread # NoThread)
            ~> (hist.handed[id] > 0 \/ ~_running)

\* ---------------------------------------------------- claims, SpecThreads
\* Thread b runs _flush_loop and will flush again: it is in a flush, or at the
\* loop test with the flag set.
Looping(b) == BgFlushing(b) \/ (pc[b] = "l_check" /\ _running)

\* C27: at most one background flush thread at every moment, whatever the
\* sequence of start() and stop() calls, and none ever created when
\* batch_size <= 1.
C27_AtMostOneFlushThread ==
    /\ Cardinality({b \in BgThreads : Looping(b)}) <= 1
    /\ batch_size <= 1 => \A b \in BgThreads : pc[b] \in {"unborn", "absent"}

\* ------------------------------------------------------- claims, SpecMulti
MultiReturned(kinds) == m_pc = "idle" /\ m_op \in kinds /\ m_ret # "none"

\* C5: MultiExporter.export returns true exactly when some member's export
\* returned true, a member that raised counting as false; it returns false when
\* every member returned false or raised.
C5_AnyMemberSucceeds ==
    MultiReturned({"export"}) =>
        /\ m_ret \in {"true", "false"}
        /\ m_ret = "true" <=> \E i \in 1..Len(callLog) : callLog[i].out = "true"

C5_Witness ==
    /\ MultiReturned({"export"}) /\ m_ret = "true"
    /\ \E i, j, k \in 1..Len(callLog) :
          callLog[i].out = "raised" /\ callLog[j].out = "false" /\ callLog[k].out = "true"

\* C6: MultiExporter.export calls export exactly once on every member, in list
\* order, with the given record, also after a member returned false or raised,
\* and no member's exception reaches the caller.
C6_EveryMemberExportedTo ==
    /\ m_op = "export" =>
          /\ Len(callLog) <= Len(exporters)
          /\ \A i \in 1..Len(callLog) :
                callLog[i] = [m |-> exporters[i], op |-> "export", arg |-> m_arg,
                              out |-> callLog[i].out]
    /\ MultiReturned({"export"}) => Len(callLog) = Len(exporters) /\ m_ret # "raised"

C6_Witness ==
    /\ MultiReturned({"export"})
    /\ Len(exporters) >= 3
    /\ callLog[1].out = "raised" /\ callLog[2].out = "false"

\* C7: start, stop and flush each call the same method exactly once on every
\* member, in list order, whatever the outcome of the calls, a member's call
\* raising included.
C7_BroadcastReachesAll ==
    MultiReturned(BroadcastOps) =>
        /\ Len(callLog) = Len(exporters)
        /\ \A i \in 1..Len(callLog) : callLog[i].m = exporters[i] /\ callLog[i].op = m_op

\* -------------------------------------------------- claims, SpecCloudWatch
\* C17: with boto3 absent, every export call of the CloudWatch adapter returns
\* false, whatever the batch_size, and no call of export or flush raises.
C17_NoClientLibraryIsFalse ==
    [][\A t \in Callers :
          /\ (~boto3 /\ ExportLeaves(t)) => ret'[t] = "false"
          /\ (~boto3 /\ op[t] \in {"export", "flush"}) => ret'[t] # "raised"]_vars

\* C18: every put_log_events call supplies the token returned by the last put the
\* log stream accepted (none before the first), under every interleaving of the
\* flushes of export, of the flush thread and of flush().
C18_TokenOfPreviousSend ==
    \A p \in puts : p.supplied = p.expected

\* ----------------------------------------------- claims, SpecElasticsearch
\* C19 as amended: the k-th _get_host call (from 0) returns hosts[k mod n] with
\* its trailing "/" characters removed, n being the length of the host list.
C19_RoundRobinStripped ==
    \A k \in 0..(Len(es_calls) - 1) :
        es_calls[k + 1] = [hosts[(k % Len(hosts)) + 1] EXCEPT !.slashes = 0]

C19_Witness ==
    /\ Len(hosts) = 3 /\ Len(es_calls) = 4
    /\ \A i, j \in 1..3 : i # j => hosts[i].name # hosts[j].name
    /\ hosts[1].slashes = 1
    /\ es_calls[4] = es_calls[1]

\* C19 as stated: the k-th _get_host call (from 0) returns hosts[k mod n].
C19_RoundRobin ==
    \A k \in 0..(Len(es_calls) - 1) :
        es_calls[k + 1] = hosts[(k % Len(hosts)) + 1]

\* ------------------------------------------------------- claims, SpecSetup
\* The call was given a backend name _create_exporter has no branch for.
Unrecognized == \E i \in 1..Len(su_arg.cfgs) : lower(su_arg.cfgs[i].type) \notin Recognized

\* C20: a setup_telemetry call given an unrecognized backend name ends with a
\* ValueError, and none of the exporters it built is started, made part of the
\* active handle, or exported to.
C20_UnknownBackendRaisesFirst ==
    Unrecognized =>
        /\ su_pc = "done" => su_ret = "ValueError"
        /\ su_started \subseteq {PriorInstance}
        /\ su_exported \subseteq {PriorInstance}
        /\ _telemetry \subseteq {PriorInstance}

C20_Witness ==
    /\ Unrecognized /\ su_pc = "done" /\ su_ret = "ValueError"
    /\ su_arg.kind = "list" /\ exporters_ # <<>> /\ su_arg.console
    /\ PriorInstance \in su_exported

\* -------------------------------------------------------- claims, SpecBase
BatchReturned == eb_pc = "idle" /\ eb_ret \in {"true", "false"}

\* C14: export_batch calls export exactly once on every record of the batch, in
\* order, the records after one whose export returned false included.
C14_EveryRecordExported ==
    BatchReturned =>
        /\ Len(eb_log) = Len(eb_spans)
        /\ \A i \in 1..Len(eb_log) : eb_log[i].at = i /\ eb_log[i].arg = eb_spans[i]

\* C15: export_batch returns true exactly when export returned true for every
\* record of the batch (so true for the empty batch), and returns false at the
\* first record whose export returns false.
C15_LogicalAnd ==
    BatchReturned =>
        /\ eb_ret = "true" <=>
              /\ Len(eb_log) = Len(eb_spans)
              /\ \A i \in 1..Len(eb_log) : eb_log[i].out = "true"
        /\ eb_ret = "false" <=>
              /\ eb_log # <<>>
              /\ eb_log[Len(eb_log)].out = "false"
              /\ \A i \in 1..(Len(eb_log) - 1) : eb_log[i].out = "true"

C15_Witness ==
    /\ BatchReturned /\ eb_ret = "false"
    /\ Len(eb_spans) >= 3
    /\ Len(eb_log) = 2 /\ eb_log[1].out = "true"

C15_WitnessEmpty == BatchReturned /\ eb_spans = <<>> /\ eb_ret = "true"

\* -------------------------------------------------------- claims, SpecSpan
\* The positions in `exported` of the records of the span with this id.
RecordsOf(id) ==
    {i \in 1..Len(exported) : exported[i].kind = "span" /\ exported[i].span_id = id}

C9_ErrorRecordedAndReraised ==
    \A th \in SpanThreads :
        (lastObs[th].kind = "span" /\ lastObs[th].raised # NoError) =>
            /\ Cardinality(RecordsOf(lastObs[th].span)) = 1
            /\ \A i \in RecordsOf(lastObs[th].span) :
                  /\ exported[i].status = "ERROR"
                  /\ exported[i].is_error = 1
                  /\ exported[i].error_message = lastObs[th].raised.msg
            /\ lastObs[th].got = lastObs[th].raised

\* C10: if the body of start_span, or a function wrapped by a trace_* decorator,
\* raises E, the caller observes E, also when the export of the span throws.
C10_TelemetryNeverMasks ==
    \A th \in SpanThreads :
        (lastObs[th].kind \in {"span", "trace"} /\ lastObs[th].raised # NoError) =>
            lastObs[th].got = lastObs[th].raised

\* C16: for every trace_* decorator, when the wrapped function raises E exactly
\* one span is sent for the call, with status "ERROR", is_error 1, E's message and
\* E's type, and the caller then observes E.
C16_DecoratorErrorSpan ==
    \A th \in SpanThreads :
        (lastObs[th].kind = "trace" /\ lastObs[th].raised # NoError) =>
            /\ Cardinality(lastObs[th].sent) = 1
            /\ \A i \in lastObs[th].sent :
                  /\ exported[i].status = "ERROR"
                  /\ exported[i].is_error = 1
                  /\ exported[i].error_message = lastObs[th].raised.msg
                  /\ exported[i].error_type = lastObs[th].raised.type
            /\ lastObs[th].got = lastObs[th].raised

\* The start_span blocks open on thread th: entered and not yet left.
OpenOn(th) == {id \in 1..Len(spans) : spans[id].thread = th /\ spans[id].phase # "closed"}

\* The innermost of them, the one entered last (0: none is open).
InnermostOpen(th) ==
    IF OpenOn(th) = {} THEN 0 ELSE CHOOSE id \in OpenOn(th) : \A o \in OpenOn(th) : o <= id

C30_WitnessSequential ==
    /\ Len(spans) = 2 /\ spans[1].thread = spans[2].thread
    /\ spans[1].raised # NoError /\ spans[2].parent_span_id = 0

\* A record sent by send_span inside an open block has that block as parent.
C30_WitnessSendSpan ==
    \E i \in 1..Len(exported) : exported[i].kind = "send" /\ exported[i].parent_span_id = 1

\* -------------------------------------------------------- claims, SpecFile
\* A record json.loads gives back as it was: str keys, and no tuple.
JsonNative(rec) == rec.key.t = "str" /\ rec.val.t \in {"str", "list"}

\* C21 as amended: starting from an absent or empty file, after any sequence of
\* export calls that returned True with no rotation, the file holds exactly one
\* line per call, in call order, and json.loads of a line equals the exported
\* record when the record has only str keys and JSON-native values.
C21_FileRoundTripNative ==
    (rotated = 0 /\ f_before = <<>>) =>
        /\ Len(file) = Len(f_true)
        /\ \A i \in 1..Len(f_true) :
              /\ file[i] = json_dumps(f_true[i])
              /\ JsonNative(f_true[i]) => json_loads(file[i]) = f_true[i]

C21_Witness ==
    /\ rotated = 0 /\ f_before = <<>>
    /\ Len(f_true) = 3
    /\ JsonNative(f_true[1]) /\ JsonNative(f_true[3])
    /\ f_true[1] # f_true[3]
    /\ json_loads(file[3]) = f_true[3]

\* C21 as stated (on a file that did not exist before): after any sequence of
\* export calls that returned True with no rotation, the file holds exactly one
\* line per call, in call order, and json.loads of each line equals the exported
\* record.
C21_FileRoundTrip ==
    (rotated = 0 /\ f_before = <<>>) =>
        /\ Len(file) = Len(f_true)
        /\ \A i \in 1..Len(f_true) : json_loads(file[i]) = f_true[i]

\* The optional fields of the Span a to_dict call serialized that were None,
\* empty or zero.
Unset == {f \in OptionalFields : d_arg.opt[f] \in {None, "", "0"}}

\* The two token counts, which to_dict writes for an LLM span whatever they are.
LlmTokens == IF d_arg.span_type = "LLM" THEN {"input_tokens", "output_tokens"} ELSE {}

C23_AlwaysPresentKeys ==
    d_by # "none" => AlwaysKeys \subseteq DOMAIN d_out

C23_Witness ==
    /\ d_by = "to_dict" /\ DOMAIN d_arg.attributes = AttrKeys
    /\ d_out["status"] = "" /\ AlwaysKeys \subseteq DOMAIN d_out

C23_WitnessSendSpan ==
    /\ d_by = "send_span" /\ DOMAIN d_arg = AttrKeys /\ d_arg["status"] = None
    /\ d_out["status"] = None /\ AlwaysKeys \subseteq DOMAIN d_out

\* ------------------------------------------------------- claims, SpecTrace
\* C24: within one thread the trace id is generated on first access and then
\* stays the same.  Two spans created by start_span or send_span on a thread
\* with no new_trace() call and no assignment to telemetry.trace_id between
\* them carry the same trace_id, and a span created after new_trace() with no
\* assignment since carries the id that new_trace() returned; a span sent by
\* send_span with a non-empty trace_id keyword carries that keyword instead.
C24_TraceIdStable ==
    \A th \in SpanThreads : \A j \in 1..Len(t_log[th]) :
        LET e == t_log[th][j] IN
        /\ e.keyword => e.trace_id \in GivenIds \ {None}
        /\ ~e.keyword =>
              /\ e.trace_id \notin {NoValue, None, ""}
              /\ (e.new_trace > 0 /\ ~e.overwritten) => e.trace_id = e.returned
              /\ \A i \in 1..(j - 1) :
                    (/\ ~t_log[th][i].keyword
                     /\ t_log[th][i].new_trace = e.new_trace
                     /\ t_log[th][i].assigned = e.assigned)
                    => t_log[th][i].trace_id = e.trace_id

C24_Witness ==
    /\ Len(t_log["a"]) = 3 /\ Len(t_log["b"]) = 1
    /\ t_log["a"][1].by = "start_span" /\ t_log["a"][2].by = "send_span"
    /\ t_log["a"][1].new_trace = 0 /\ t_log["a"][3].new_trace = 0
    /\ t_log["a"][1].trace_id = t_log["a"][3].trace_id
    /\ t_log["a"][1].trace_id # t_log["b"][1].trace_id
    /\ \A i \in 1..3 : ~t_log["a"][i].keyword /\ t_log["a"][i].assigned = 0

C24_WitnessNewTrace ==
    /\ Len(t_log["a"]) = 3
    /\ t_log["a"][1].new_trace = 0 /\ t_log["a"][2].new_trace = 1 /\ t_log["a"][3].new_trace = 1
    /\ t_log["a"][2].trace_id = t_log["a"][2].returned
    /\ t_log["a"][3].trace_id = t_log["a"][2].trace_id
    /\ t_log["a"][1].trace_id # t_log["a"][2].trace_id

C24_TraceIdUntilNewTrace ==   \* as stated (only new_trace() changes the id), keywords apart
    \A th \in SpanThreads : \A j \in 1..Len(t_log[th]) :
        LET e == t_log[th][j] IN
        ~e.keyword =>
            /\ e.new_trace > 0 => e.trace_id = e.returned
            /\ \A i \in 1..(j - 1) :
                  (~t_log[th][i].keyword /\ t_log[th][i].new_trace = e.new_trace)
                  => t_log[th][i].trace_id = e.trace_id

\* ------------------------------------------------------- claims, SpecLocal
\* Thread th takes a step of start_span, or calls new_trace().
ActsOn(th) ==
    \/ StartSpanTraced(th)
    \/ BodyReturns(th)
    \/ \E e \in Errors : BodyRaises(th, e)
    \/ \E out \in {"true", "false", "raised"} : Finally(th, out)
    \/ NewTrace(th)

\* C31: threads do not affect each other's linkage.  The parent of a span is a
\* span opened on the same thread, a span carries the trace id of its own
\* thread, and a start_span step or a new_trace() on one thread leaves the trace
\* id and the span stack of every other thread as they were.
C31_ThreadsIsolated ==
    /\ [](\A id \in 1..Len(spans) :
            /\ spans[id].parent_span_id # 0 =>
                  /\ spans[id].parent_span_id < id
                  /\ spans[spans[id].parent_span_id].thread = spans[id].thread
            /\ \A th \in SpanThreads : \A k \in 1..Len(span_stack[th]) :
                  spans[span_stack[th][k]].thread = th)
    /\ [][\A th \in SpanThreads : ActsOn(th) =>
            \A o \in SpanThreads \ {th} :
                /\ span_stack'[o] = span_stack[o]
                /\ _trace_id'[o] = _trace_id[o]
                /\ t_log'[o] = t_log[o]]_vars

\* Each thread has a block open, "b" opened its own after "a" and has no
\* parent; then "a" started a new trace, and "b" still has the id of its span.
C31_Witness ==
    /\ Len(span_stack["a"]) = 1 /\ Len(span_stack["b"]) = 1
    /\ span_stack["a"][1] < span_stack["b"][1]
    /\ spans[span_stack["b"][1]].parent_span_id = 0
    /\ t_calls["a"].new_trace = 1 /\ _trace_id["a"] # t_log["a"][1].trace_id
    /\ _trace_id["b"] = t_log["b"][1].trace_id /\ _trace_id["a"] # _trace_id["b"]

\* ------------------------------------------------------ claims, SpecRecord
\* C32: export does not modify the record it is given.  After export has
\* returned the caller's dict has exactly the keys and values it was passed
\* with, and every member of a fan-out was given the record as the caller
\* supplied it.
C32_RecordUnmodified ==
    /\ r_pc = "done" => r_span_data = r_given
    /\ \A i \in 1..Len(r_received) : r_received[i] = r_given

\* -------------------------------------------------------- claims, SpecProm
\* The calls that have not reached the counters yet, and those among them whose
\* record has is_error set.
Waiting == {t \in Callers : p_pc[t] = "lock"}
WaitingErrors == {t \in Waiting : p_span_data[t].is_error = "1"}

\* C33: the request counter is the number of export calls made and the error
\* counter the number of those whose record has is_error set: each call counts
\* once, as soon as it is through its locked block, whether its push succeeds,
\* fails, or the call raises; so with no call waiting for the lock the counters
\* equal the calls made.  The error counter never exceeds the request counter
\* and neither counter ever decreases.
C33_CountersCountCalls ==
    /\ [](/\ _metrics.llm_requests_total = p_calls.made - Cardinality(Waiting)
          /\ _metrics.llm_errors_total = p_calls.errors - Cardinality(WaitingErrors)
          /\ _metrics.llm_errors_total <= _metrics.llm_requests_total)
    /\ [][/\ _metrics'.llm_requests_total >= _metrics.llm_requests_total
          /\ _metrics'.llm_errors_total >= _metrics.llm_errors_total]_vars

\* Four calls from two threads, one pushed and failed, one raised, one with
\* is_error 0: all four are counted, two of them as errors.
C33_Witness ==
    /\ \A t \in Callers : p_pc[t] = "idle"
    /\ p_ret["t1"] = "false" /\ p_ret["t2"] = "raised"
    /\ p_span_data["t1"].is_error = "0"
    /\ _metrics.llm_requests_total = 4 /\ _metrics.llm_errors_total = 2

\* ------------------------------------------------------------ C34
\* The callers inside the `with self._lock:` block of FileExporter.export.
InBlock == {t \in Callers : fl_pc[t] \in {"check", "write", "close"}}
\* The callers whose line has begun to reach the file.
Writing == {t \in Callers : fl_pc[t] = "close"}

\* C34: concurrent FileExporter.export calls are serialized by the lock: at most
\* one call is between its size check and the end of its write, and it owns the
\* lock; the file never grows past the size at which the check rotates it; every
\* line of the file is one complete record, but for the last line while its
\* writer is still writing it; and the lines written, rotated away or not, are
\* as many as the calls that returned true, plus the line being written.
C34_ExportsSerialized ==
    /\ Cardinality(InBlock) <= 1
    /\ \A t \in InBlock : fl_lock = t
    /\ Len(file) <= (IF rotate_size_mb > 1 THEN rotate_size_mb ELSE 1)
    /\ \A i \in 1..Len(file) :
          file[i].jt = "partial" =>
              /\ i = Len(file)
              /\ file[i].v \in Writing
    /\ Len(file) + fl_gone = Len(f_true) + Cardinality(Writing)

\* One call has returned true and its line was rotated away by a second call,
\* which is writing its line while the other thread waits for the lock with a
\* third call.
C34_Witness ==
    /\ Len(f_true) = 1
    /\ rotated = 1 /\ fl_gone = 1
    /\ Writing # {}
    /\ \E t \in Callers : fl_pc[t] = "lock" /\ fl_lock \notin {t, NoThread}

\* ------------------------------------------------------------ C35
\* The handles that exist before the setup_telemetry call under way.
Earlier == IF h_pc = "idle" THEN 1..Len(h_exporters) ELSE 1..(Len(h_exporters) - 1)

\* C35: once a setup_telemetry call has returned, the global names its handle,
\* so get_telemetry gives the handle of the most recent successful setup (and
\* raises RuntimeError before the first); and no step of a setup_telemetry call
\* changes the exporter of an earlier handle: it is neither stopped nor flushed,
\* its thread keeps running and its queue keeps its records.
C35_SetupReplacesHandle ==
    /\ [](h_pc = "idle" => h_telemetry = h_last)
    /\ [][h_got' # h_got /\ h_pc = "idle" =>
            h_got' = IF h_last = 0 THEN "RuntimeError" ELSE ToString(h_last)]_vars
    /\ [][h_pc' # h_pc =>
            \A i \in Earlier : h_exporters'[i] = h_exporters[i]]_vars

\* After a second successful setup get_telemetry gives the second handle, while
\* the first handle's exporter is still running with a record in its queue.
C35_Witness ==
    /\ h_pc = "idle" /\ h_last = 2 /\ h_got = "2"
    /\ h_exporters[1].running /\ h_exporters[1].queue = 1
    /\ h_exporters[1].stops = 0 /\ h_exporters[1].flushes = 0

\* ------------------------------------------------------------ C36
\* C36: in batching mode every export call returns true, also the one whose
\* size-triggered flush fails to send, and every flush and stop call returns
\* without a value: no caller learns the outcome of a batch send.
C36_SendOutcomeUnreported ==
    [][\A t \in Callers :
          (batch_size > 1 /\ Busy(t) /\ pc'[t] = "idle") =>
              ret'[t] = IF InExport(t) THEN "true" ELSE "void"]_vars

\* ------------------------------------------------------------ C37
\* C37: with several threads calling export on a batching adapter, the pending
\* queue never holds more than batch_size records, and no batch handed to
\* _send_batch holds more than batch_size records.
C37_QueueWithinBatchSize ==
    batch_size > 1 =>
        /\ Len(_batch) <= batch_size
        /\ \A th \in Threads : Len(batch[th]) <= batch_size

\* The callers whose export has appended its record, found the size reached and
\* left the lock, and whose flush has not yet swapped the queue.
FlushPending == {t \in Callers : InExport(t) /\ pc[t] \in {"f_lock", "f_crit"}}

\* C37, as the code has it: export tests the size under the lock but calls
\* flush after leaving it, so other threads can append in between.  The queue,
\* and so a batch handed to _send_batch, holds at most batch_size - 1 records
\* plus one for every thread calling export, and it holds batch_size or more
\* only while the flush of some export call is still to swap it.
C37_QueueBoundedByCallers ==
    batch_size > 1 =>
        /\ Len(_batch) <= batch_size - 1 + Cardinality(Callers)
        /\ \A th \in Threads : Len(batch[th]) <= batch_size - 1 + Cardinality(Callers)
        /\ Len(_batch) >= batch_size => FlushPending # {}
        /\ Len(_batch) <= batch_size - 1 + Cardinality(FlushPending)

\* Two export calls have each appended past batch_size and neither has flushed
\* yet: the queue holds batch_size + 1 records.
C37_Witness ==
    /\ batch_size > 1
    /\ Len(_batch) = batch_size + 1
    /\ FlushPending = Callers

\* ------------------------------------------------------------ C38
\* stop() was called after the last start() and has returned, and start() has
\* not been called since: with one caller, whatever is in the queue was
\* exported after stop() returned.
Stopped ==
    /\ ~_running /\ _flush_thread # NoThread
    /\ op["t1"] \notin {"stop", "start"}

\* C38: after stop() has returned, an export call on a batching adapter that
\* does not reach batch_size enqueues its record and returns true, and the
\* background thread never takes the queue to send it: the records wait for the
\* size to be reached or for a further flush() or stop().
C38_StoppedQueueWaits ==
    /\ [][(Stopped /\ pc["t1"] = "e_crit" /\ pc'["t1"] = "idle") =>
            /\ ret'["t1"] = "true"
            /\ _batch' = Append(_batch, span_data["t1"])]_vars
    /\ [][\A b \in BgThreads :
            (Stopped /\ pc[b] = "f_crit") => pc'[b] # "send_batch"]_vars

\* ------------------------------------------------------------ C39
\* The handles there can be before the call: none, or the earlier setup's.
HandleBefore == {{}, {PriorInstance}}

\* C39: a setup_telemetry call that raises a configuration error leaves the
\* global handle as it was before the call, unset or the previous handle, and
\* starts no exporter, also when the failing entry of a list follows valid
\* entries: up to the end of the creation, and for good when the call raised,
\* the handle is the one before the call and only its exporter is started.
C39_FailedSetupChangesNothing ==
    (su_pc \in {"idle", "create"} \/ su_ret = "ValueError") =>
        /\ _telemetry \in HandleBefore
        /\ su_started = _telemetry

\* The second entry of a list was rejected after the first was built, with a
\* handle set before the call.
C39_Witness ==
    /\ su_ret = "ValueError" /\ su_pc = "done"
    /\ su_arg.kind = "list" /\ su_i = 2 /\ Len(exporters_) = 1
    /\ _telemetry = {PriorInstance}

\* ------------------------------------------------------------ C40
\* The position in `exported` of the record of span id, 0 when it has none.
ExportedAt(id) ==
    LET at == {i \in 1..Len(exported) : exported[i].kind = "span" /\ exported[i].span_id = id}
    IN IF at = {} THEN 0 ELSE CHOOSE i \in at : TRUE

\* The spans whose start_span block encloses that of span id: its parent, the
\* parent's parent, and so on.
RECURSIVE Enclosing(_)
Enclosing(id) ==
    LET p == spans[id].parent_span_id IN
    IF p = 0 THEN {} ELSE {p} \cup Enclosing(p)

\* C40: with nested start_span blocks on one thread the record of an inner span
\* is exported before the record of every span that encloses it (an enclosing
\* span has no record while the inner one has none), and the record of a span is
\* exported only once the span is off its thread's stack; each span is exported
\* once.
C40_InnerExportedFirst ==
    /\ \A id \in 1..Len(spans) : \A outer \in Enclosing(id) :
          /\ spans[outer].thread = spans[id].thread
          /\ ExportedAt(outer) # 0 =>
                (ExportedAt(id) # 0 /\ ExportedAt(id) < ExportedAt(outer))
    /\ \A i \in 1..Len(exported) :
          exported[i].kind = "span" =>
              /\ \A th \in SpanThreads : \A k \in 1..Len(span_stack[th]) :
                    span_stack[th][k] # exported[i].span_id
              /\ \A j \in 1..Len(exported) :
                    (exported[j].kind = "span" /\ exported[j].span_id = exported[i].span_id)
                        => j = i

\* Two nested blocks on one thread have both been left: the inner span's record
\* comes first and the stack is empty again.
C40_Witness ==
    /\ Len(spans) = 2 /\ spans[2].parent_span_id = 1
    /\ ExportedAt(2) # 0 /\ ExportedAt(1) > ExportedAt(2)
    /\ span_stack[spans[1].thread] = <<>>

====
